---- MODULE Spec2Model ----
\* A model of the aws-account-operator controllers.
\*
\* Part 1: the AWSFederatedAccountAccess reconciler
\* (src/controllers/validation/account_validation_controller.go, lines 380-1154):
\* one request, its AWSFederatedRole template, the resource store that keeps
\* them, and the IAM objects of the target account.  Every store call and every
\* provider call of a reconcile pass is one step; the trace of the calls of the
\* current (or last) pass is kept in `calls`.
\*
\* Part 2: the AWSFederatedRole reconciler (src/unnamed/part_000, lines
\* 1652-1963): one template, validated by a trial creation of its custom
\* policy and a look-up of its managed policies in the provider's listing.
\*
\* Part 3: the account validation reconciler
\* (src/controllers/validation/account_validation_controller.go, lines 1-378):
\* one account, the organization's parent relation and the account's owner
\* tag at the provider, and the two package-level feature flags.
\*
\* Part 4: the account controller's state predicates and its CreateAccount
\* (package account; src/unnamed/part_000 holds its tests, lines 135-1650):
\* one account snapshot, and one run of CreateAccount against the provider.
EXTENDS Naturals, Sequences, FiniteSets, TLC

\* ---------------------------------------------------------------- bounds

\* Number of AWS managed policies a template may name.
MaxManaged == 2

\* ---------------------------------------------------------------- values

None == "none"

\* Short random tokens GenerateShortUID can return.
UIDs == {"u1", "u2"}

\* The identifier GetCallerIdentity reports for the target account.
AccountID == "acct"

\* Names are sequences of tokens that the code joins with "-".
ManagedNames == << <<"M1">>, <<"M2">>, <<"M3">> >>

\* Custom policy names a template may carry; the second one happens to end
\* with a token that is also a possible uid.
CustomPolicyNames == { <<"CP">>, <<"CP", "u1">> }

\* metadata.name of the AWSFederatedRole template.
TemplateName == <<"R">>

\* A policy of the target account that belongs to nobody in this model.
OtherPolicy == <<"Other">>

VARIABLES
    faa,        \* the request as persisted in the resource store
    tmpl,       \* the AWSFederatedRole template in the store
    policies,   \* names of the account-local IAM policies of the target account
    roles,      \* names of the IAM roles of the target account
    attached,   \* set of <<role name, policy ARN>>
    pc,         \* position of the running pass ("idle": none running)
    cur,        \* currentFAA, the in-memory copy the pass works on
    loc,        \* locals of the pass
    calls,      \* store and provider calls of the current / last pass
    start,      \* the persisted request when the pass started
    result,     \* what the last pass returned: "none", "ok", "err"
    teardown,   \* what cleanFederatedRoles returned in this pass
    caller,     \* "Reconcile", or "Twice" for the create-or-replace driver
    tampered,   \* someone else has removed IAM objects of the account
    \* Part 2
    frole,      \* the AWSFederatedRole template as persisted, with its status
    catalog,    \* names of the policies the operator account's listing shows
    fedramp,    \* config.IsFedramp()
    rpc,        \* position of the running template pass ("idle": none running)
    instance,   \* the in-memory copy of the template the pass works on
    rloc,       \* locals of the template pass
    rcalls,     \* store and provider calls of the current / last template pass
    rstart,     \* the persisted template when the pass started
    rresult,    \* what the last template pass returned
    \* Part 3
    account,            \* the Account resource in the store
    parents,            \* what ListParents answers, per child id
    ownerTag,           \* value of the account's "owner" tag at the provider
    accountMoveEnabled, \* package variable, line 28
    accountTagEnabled,  \* package variable, line 29
    vpc,                \* position of the running validation pass
    vloc,               \* locals of the validation pass
    vcalls,             \* store and provider calls of the current / last pass
    vresult,            \* how the last validation pass ended
    \* Part 4
    snap,       \* an Account snapshot: the attributes the predicates read
    ev,         \* the compound predicates evaluated on snap, once evaluated
    cpc,        \* position of the run of CreateAccount
    ccalls,     \* provider calls of that run
    cout,       \* what CreateAccount returned: the output and the error
    \* Part 5
    cfgcalls    \* calls of package config's functions, with what they returned

\* The variables of the AWSFederatedAccountAccess reconciler, but the request.
accessRest == <<tmpl, policies, roles, attached, pc, cur, loc, calls, start,
                result, teardown, caller, tampered>>

\* The variables of the AWSFederatedRole reconciler.
roleVars == <<frole, catalog, fedramp, rpc, instance, rloc, rcalls, rstart, rresult>>

\* The variables of the account validation reconciler.
acctVars == <<account, parents, ownerTag, accountMoveEnabled, accountTagEnabled,
              vpc, vloc, vcalls, vresult>>

\* The variables of the account controller's predicates and CreateAccount.
ctlVars == <<snap, ev, cpc, ccalls, cout>>

\* The variables of package config, but the flag.
cfgVars == <<cfgcalls>>

\* What a step of the AWSFederatedAccountAccess reconciler cannot touch.
outsideAccess == <<roleVars, acctVars, ctlVars, cfgVars>>

vars == <<faa, accessRest, roleVars, acctVars, ctlVars, cfgVars>>

\* ---------------------------------------------------------------- helpers

Last(s) == s[Len(s)]

Prefix(s, k) == SubSeq(s, 1, k)

Suffix(s, k) == SubSeq(s, k + 1, Len(s))

\* name + "-" + uid
WithUID(name, uid) == Append(name, uid)

\* strings.HasSuffix(name, "-" + uid)
HasUIDSuffix(name, uid) == Len(name) >= 2 /\ Last(name) = uid

getPolicyNameWithUID(crPolicyName, uidLabel) ==
    IF ~HasUIDSuffix(crPolicyName, uidLabel)
    THEN WithUID(crPolicyName, uidLabel)
    ELSE crPolicyName

\* An ARN is <<account or "aws", policy name>>.
PolicyArn(accountID, name, awsManaged) ==
    << IF awsManaged THEN "aws" ELSE accountID, name >>

RECURSIVE createPolicyArns(_, _, _)
createPolicyArns(accountID, policyNames, awsManaged) ==
    IF policyNames = <<>>
    THEN <<>>
    ELSE <<PolicyArn(accountID, Head(policyNames), awsManaged)>>
         \o createPolicyArns(accountID, Tail(policyNames), awsManaged)

hasLabel(obj, labelKey) == obj[labelKey] # None

\* Name of the policy createIAMPolicy asks the provider to create.
CreatedPolicyName(afr, afaa) == WithUID(afr.polName, afaa.uid)

\* A createIAMRole that forgets the uid.
CreatedRoleName_NoUID(afr, afaa) == afr.name

\* Name of the role createIAMRole asks the provider to create.
CreatedRoleName(afr, afaa) == WithUID(afr.name, afaa.uid)

\* roleName as built in Reconcile, createOrUpdateIAMRole and cleanFederatedRoles
\* from Spec.AWSFederatedRole.Name (the name the template was fetched by).
RoleNameOf(afaa) == WithUID(TemplateName, afaa.uid)

\* policyArns of Reconcile: the managed policies, then the custom policy.
AttachArns(afr, afaa, accountID) ==
    createPolicyArns(accountID, afr.managed, TRUE)
    \o <<createPolicyArns(accountID, <<WithUID(afr.polName, afaa.uid)>>, FALSE)[1]>>

\* SetStatuswithCondition: the state it stores (the condition list is not modelled).
SetStatuswithCondition(afaa, state) == [afaa EXCEPT !.state = state]

\* ---------------------------------------------------------------- provider

ArnsOf(role) == {p[2] : p \in {q \in attached : q[1] = role}}

IsAttached(arn) == \E q \in attached : q[2] = arn

\* The order in which the provider lists policies.
AllArns ==
    createPolicyArns(AccountID, ManagedNames, TRUE)
    \o << <<AccountID, <<"CP", "u1">> >>, <<AccountID, <<"CP", "u2">> >>,
          <<AccountID, <<"CP", "u1", "u1">> >>, <<AccountID, <<"CP", "u1", "u2">> >>,
          <<AccountID, OtherPolicy>> >>

SeqOfArns(S) == SelectSeq(AllArns, LAMBDA a : a \in S)

LocalArns == {<<AccountID, n>> : n \in policies}

\* A call can always fail with some other provider error (throttling, access
\* denied, ...), except under the create-or-replace driver, whose provider is healthy.
Transient == IF caller = "Reconcile" THEN {"Other"} ELSE {}

AnsCreatePolicy(name) ==
    (IF name \in policies THEN {"EntityAlreadyExists"} ELSE {"ok"}) \cup Transient

AnsCreateRole(name) ==
    (IF name \in roles THEN {"EntityAlreadyExists"} ELSE {"ok"}) \cup Transient

AnsDeletePolicy(arn) ==
    (IF arn \notin LocalArns THEN {"NoSuchEntity"}
     ELSE IF IsAttached(arn) THEN {"DeleteConflict"}
     ELSE {"ok"}) \cup Transient

AnsDeleteRole(name) ==
    (IF name \notin roles THEN {"NoSuchEntity"}
     ELSE IF ArnsOf(name) # {} THEN {"DeleteConflict"}
     ELSE {"ok"}) \cup Transient

AnsAttach(role, arn) ==
    (IF role \notin roles \/ (arn[1] # "aws" /\ arn \notin LocalArns)
     THEN {"NoSuchEntity"} ELSE {"ok"}) \cup Transient

AnsDetach(role, arn) ==
    (IF <<role, arn>> \notin attached THEN {"NoSuchEntity"} ELSE {"ok"}) \cup Transient

AnsListAttached(role) ==
    (IF role \notin roles THEN {"NoSuchEntity"} ELSE {"ok"}) \cup Transient

AnsPlain == {"ok"} \cup Transient

\* ---------------------------------------------------------------- store

AnsGet(exists) == (IF exists THEN {"ok"} ELSE {"NotFound"}) \cup {"Error"}

\* Update and Status().Update of the request.
AnsWrite == (IF faa.exists THEN {"ok"} ELSE {"NotFound"}) \cup {"Error"}

\* client.Update: metadata (finalizers, labels) is written; the store deletes
\* an object that has a deletion marker and no finalizer left.
StoreUpdate(obj) ==
    [faa EXCEPT !.fin = obj.fin, !.uid = obj.uid, !.acct = obj.acct,
                !.exists = ~(faa.del /\ ~obj.fin)]

\* client.Status().Update: the status (state, console URL) is written.
StoreStatusUpdate(obj) == [faa EXCEPT !.state = obj.state, !.url = obj.url]

\* ---------------------------------------------------------------- trace

ProviderOps == {"GetCallerIdentity", "CreatePolicy", "DeletePolicy", "CreateRole",
                "DeleteRole", "AttachRolePolicy", "DetachRolePolicy",
                "ListAttachedRolePolicies", "ListPolicies", "AssumeRole"}

CreateOps == {"CreatePolicy", "CreateRole"}

DeleteOps == {"DeletePolicy", "DeleteRole", "DetachRolePolicy"}

\* One call: what was called, on what, the answer, in which function, and
\* whether the stored request carried the finalizer at that moment.
Call(op, arg, ans, fn) ==
    [op |-> op, arg |-> arg, ans |-> ans, fn |-> fn,
     fin |-> faa.exists /\ faa.fin]

Log(op, arg, ans, fn) == calls' = Append(calls, Call(op, arg, ans, fn))

NoLoc == [accountID |-> None, arns |-> <<>>, page |-> <<>>, rest |-> <<>>,
          first |-> TRUE, round |-> 0]

NoCur == [exists |-> FALSE, fin |-> FALSE, del |-> FALSE, uid |-> None,
          acct |-> None, state |-> "None", url |-> None]

provider == <<policies, roles, attached>>

\* ---------------------------------------------------------------- control

Ends(t) == t \in {"end_ok", "end_err"}

\* Move to position t with in-memory request c and locals l; "end_ok" and
\* "end_err" are the returns of Reconcile (reconcile.Result{}, nil / err),
\* "done_ok" and "done_err" the end of the create-or-replace driver.
Step(t, c, l) ==
    /\ pc' = (IF Ends(t) THEN "idle" ELSE IF t \in {"done_ok", "done_err"} THEN "done" ELSE t)
    /\ result' = (IF t \in {"end_ok", "done_ok"} THEN "ok"
                  ELSE IF t \in {"end_err", "done_err"} THEN "err" ELSE "none")
    /\ cur' = (IF Ends(t) THEN NoCur ELSE c)
    /\ loc' = (IF Ends(t) THEN NoLoc ELSE l)

\* A Reconcile that generates a uid whenever it gets as far as line 516.
AfterDeletionBlock_AlwaysNewUID(c) ==
    IF c.state = "Ready" \/ c.state = "Failed" THEN "end_ok" ELSE "genUID"

\* Lines 511-543 of Reconcile: a Ready or Failed request is left alone, a
\* request without the uid label gets one, the others go on to the provider.
AfterDeletionBlock(c) ==
    IF c.state = "Ready" \/ c.state = "Failed" THEN "end_ok"
    ELSE IF ~hasLabel(c, "uid") THEN "genUID"
    ELSE "getClient"

\* Lines 911-931 of cleanFederatedRoles: "ok" and "err" are returns, "go" goes on.
LabelCheck(c) ==
    IF ~hasLabel(c, "uid")
    THEN (IF c.state # "Ready" THEN "ok" ELSE "err")
    ELSE IF ~hasLabel(c, "acct")
    THEN (IF c.state # "Ready" THEN "ok" ELSE "err")
    ELSE "go"

\* Lines 483-509 of Reconcile, after both objects were read.
AfterGetRole(c) ==
    IF ~c.fin THEN "addFinalizer"
    ELSE IF c.del
    THEN (IF LabelCheck(c) = "ok" THEN "removeFinalizer"
          ELSE IF LabelCheck(c) = "err" THEN "end_err"
          ELSE "cleanGetClient")
    ELSE AfterDeletionBlock(c)

\* A Reconcile that deletes the role when the attachment fails.
FailStep_DeletesRole(l) ==
    IF caller = "Reconcile"
    THEN (IF pc = "attach" THEN Step("deleteConflictingRole", cur, l)
          ELSE Step("statusUpdate", SetStatuswithCondition(cur, "Failed"), l))
    ELSE Step("done_err", cur, l)

\* A failed provisioning step: Reconcile stores state Failed; the driver stops.
FailStep(l) ==
    IF caller = "Reconcile"
    THEN Step("statusUpdate", SetStatuswithCondition(cur, "Failed"), l)
    ELSE Step("done_err", cur, l)

\* A createOrUpdateIAMPolicy that retries the create without deleting first.
AfterFirstCreatePolicy_NoDelete(ans) ==
    IF ans = "ok" THEN "createRole"
    ELSE IF ans = "EntityAlreadyExists" THEN "createPolicyRetry"
    ELSE "createRole"

\* What createOrUpdateIAMPolicy does with the answer to its first CreatePolicy
\* (lines 781-798): a conflict is resolved, any other error is dropped and
\* the function returns nil.
AfterFirstCreatePolicy(ans) ==
    IF ans = "ok" THEN "createRole"
    ELSE IF ans = "EntityAlreadyExists" THEN "deletePolicy"
    ELSE "createRole"

\* A createOrUpdateIAMRole that answers every error of the create by replacing
\* the role.
AfterFirstCreateRole_AlwaysReplace(ans) ==
    IF ans = "ok" THEN "roleDone" ELSE "deleteRole"

\* What createOrUpdateIAMRole does with the answer to its first CreateRole
\* (lines 810-838).
AfterFirstCreateRole(ans) ==
    IF ans = "ok" THEN "roleDone"
    ELSE IF ans = "EntityAlreadyExists" THEN "deleteRole"
    ELSE "fail"

\* ---------------------------------------------------------------- Reconcile

\* Reconcile, lines 449-461: fetch the request.
GetFAA ==
    /\ pc = "idle"
    /\ caller = "Reconcile"
    /\ \E ans \in AnsGet(faa.exists) :
        /\ calls' = <<Call("Get", "faa", ans, "Reconcile")>>
        /\ Step(IF ans = "ok" THEN "getRole"
                ELSE IF ans = "NotFound" THEN "end_ok" ELSE "end_err", faa, NoLoc)
    /\ start' = faa
    /\ teardown' = "none"
    /\ UNCHANGED <<outsideAccess, faa, tmpl, provider, caller, tampered>>

\* Reconcile, lines 463-509: fetch the template; a missing template fails the
\* request; then the finalizer and deletion checks.
GetRole ==
    /\ pc = "getRole"
    /\ \E ans \in AnsGet(tmpl.exists) :
        /\ Log("GetRole", "role", ans, "Reconcile")
        /\ IF ans = "NotFound"
           THEN Step("statusUpdate", SetStatuswithCondition(cur, "Failed"), loc)
           ELSE IF ans = "Error"
           THEN Step("end_err", cur, loc)
           ELSE Step(AfterGetRole(cur), cur, loc)
        /\ teardown' = (IF ans = "ok" /\ cur.fin /\ cur.del /\ LabelCheck(cur) # "go"
                        THEN LabelCheck(cur) ELSE teardown)
    /\ UNCHANGED <<outsideAccess, faa, tmpl, provider, start, caller, tampered>>

\* addFinalizer, lines 883-894, and the return at line 490.
addFinalizer ==
    /\ pc = "addFinalizer"
    /\ \E ans \in AnsWrite :
        /\ Log("AddFinalizer", "faa", ans, "addFinalizer")
        /\ faa' = (IF ans = "ok" THEN StoreUpdate([cur EXCEPT !.fin = TRUE]) ELSE faa)
        /\ Step(IF ans = "ok" THEN "end_ok" ELSE "end_err", cur, loc)
    /\ UNCHANGED <<outsideAccess, tmpl, provider, start, teardown, caller, tampered>>

\* removeFinalizer, lines 896-907; on success Reconcile goes on at line 511.
removeFinalizer ==
    /\ pc = "removeFinalizer"
    /\ \E ans \in AnsWrite :
        LET c == [cur EXCEPT !.fin = FALSE] IN
        /\ Log("RemoveFinalizer", "faa", ans, "removeFinalizer")
        /\ faa' = (IF ans = "ok" THEN StoreUpdate(c) ELSE faa)
        /\ Step(IF ans = "ok" THEN AfterDeletionBlock(c) ELSE "end_err", c, loc)
    /\ UNCHANGED <<outsideAccess, tmpl, provider, start, teardown, caller, tampered>>

\* Reconcile, lines 516-543: generate the uid and store it as a label.
assignUID ==
    /\ pc = "genUID"
    /\ \E uid \in UIDs, ans \in AnsWrite :
        LET c == [cur EXCEPT !.uid = uid] IN
        /\ Log("UpdateUID", uid, ans, "Reconcile")
        /\ faa' = (IF ans = "ok" THEN StoreUpdate(c) ELSE faa)
        /\ Step(IF ans = "ok" THEN "getClient" ELSE "end_err", c, loc)
    /\ UNCHANGED <<outsideAccess, tmpl, provider, start, teardown, caller, tampered>>

\* Reconcile, lines 545-555: build the provider client from the customer secret.
getClient ==
    /\ pc = "getClient"
    /\ \E ans \in {"ok", "Error"} :
        /\ Log("GetClient", "customer", ans, "Reconcile")
        /\ Step(IF ans = "ok" THEN "gci" ELSE "end_err", cur, loc)
    /\ UNCHANGED <<outsideAccess, faa, tmpl, provider, start, teardown, caller, tampered>>

\* Reconcile, lines 557-573: identity discovery.
getCallerIdentity ==
    /\ pc = "gci"
    /\ \E ans \in AnsPlain :
        /\ Log("GetCallerIdentity", "self", ans, "Reconcile")
        /\ IF ans = "ok"
           THEN Step(IF ~hasLabel(cur, "acct") THEN "acctUpdate" ELSE "polGci",
                     cur, [loc EXCEPT !.accountID = AccountID])
           ELSE Step("statusUpdate", SetStatuswithCondition(cur, "Failed"), loc)
    /\ UNCHANGED <<outsideAccess, faa, tmpl, provider, start, teardown, caller, tampered>>

\* Reconcile, lines 573-591: store the account id as a label.
assignAccountID ==
    /\ pc = "acctUpdate"
    /\ \E ans \in AnsWrite :
        LET c == [cur EXCEPT !.acct = loc.accountID] IN
        /\ Log("UpdateAccountID", loc.accountID, ans, "Reconcile")
        /\ faa' = (IF ans = "ok" THEN StoreUpdate(c) ELSE faa)
        /\ Step(IF ans = "ok" THEN "polGci" ELSE "end_err", c, loc)
    /\ UNCHANGED <<outsideAccess, tmpl, provider, start, teardown, caller, tampered>>

\* A Reconcile that returns the error of the failed step after recording it.
AfterStatusUpdate_ReturnsStepError(state, ans) ==
    IF ans = "ok" /\ state = "Ready" THEN "end_ok" ELSE "end_err"

\* What Reconcile returns after a Status().Update (lines 470-476, 562-568,
\* 600-606, 616-622, 644-650, 655-661): nil after a successful write, the
\* write's error otherwise. At line 568 err is the inner one, which is nil.
AfterStatusUpdate(state, ans) ==
    IF ans = "ok" THEN "end_ok" ELSE "end_err"

\* Status().Update of Reconcile (lines 470, 562, 600, 616, 644, 655).
updateStatus ==
    /\ pc = "statusUpdate"
    /\ \E ans \in AnsWrite :
        /\ Log("StatusUpdate", cur.state, ans, "Reconcile")
        /\ faa' = (IF ans = "ok" THEN StoreStatusUpdate(cur) ELSE faa)
        /\ Step(AfterStatusUpdate(cur.state, ans), cur, loc)
    /\ UNCHANGED <<outsideAccess, tmpl, provider, start, teardown, caller, tampered>>

\* ---------------------------------------------------------------- provisioning

\* The end of createOrUpdateIAMRole with a role: Reconcile computes the console
\* URL and the ARNs to attach (lines 625-635); the driver starts its second round.
RoleDone ==
    IF caller = "Twice" /\ loc.round = 1
    THEN Step("polGci", cur, [loc EXCEPT !.round = 2])
    ELSE Step("attach",
              [cur EXCEPT !.url = <<loc.accountID, CreatedRoleName(tmpl, cur)>>],
              [loc EXCEPT !.arns = AttachArns(tmpl, cur, loc.accountID)])

\* createOrUpdateIAMPolicy, lines 769-777.
policyGetCallerIdentity ==
    /\ pc = "polGci"
    /\ \E ans \in AnsPlain :
        /\ Log("GetCallerIdentity", "self", ans, "createOrUpdateIAMPolicy")
        /\ IF ans = "ok"
           THEN Step("createPolicy", cur, [loc EXCEPT !.accountID = AccountID])
           ELSE FailStep(loc)
    /\ UNCHANGED <<outsideAccess, faa, tmpl, provider, start, teardown, caller, tampered>>

\* createOrUpdateIAMPolicy, lines 781-784 and 798, with createIAMPolicy.
createPolicy ==
    /\ pc = "createPolicy"
    /\ \E ans \in AnsCreatePolicy(CreatedPolicyName(tmpl, cur)) :
        /\ Log("CreatePolicy", CreatedPolicyName(tmpl, cur), ans, "createOrUpdateIAMPolicy")
        /\ policies' = (IF ans = "ok" THEN policies \cup {CreatedPolicyName(tmpl, cur)}
                        ELSE policies)
        /\ Step(AfterFirstCreatePolicy(ans), cur, loc)
    /\ UNCHANGED <<outsideAccess, faa, tmpl, roles, attached, start, teardown, caller, tampered>>

\* createOrUpdateIAMPolicy, lines 785-788: delete the policy that is in the way.
deleteConflictingPolicy ==
    /\ pc = "deletePolicy"
    /\ LET arn == createPolicyArns(loc.accountID, <<WithUID(tmpl.polName, cur.uid)>>, FALSE)[1] IN
       \E ans \in AnsDeletePolicy(arn) :
        /\ Log("DeletePolicy", arn, ans, "createOrUpdateIAMPolicy")
        /\ policies' = (IF ans = "ok" THEN policies \ {arn[2]} ELSE policies)
        /\ IF ans = "ok" THEN Step("createPolicyRetry", cur, loc) ELSE FailStep(loc)
    /\ UNCHANGED <<outsideAccess, faa, tmpl, roles, attached, start, teardown, caller, tampered>>

\* createOrUpdateIAMPolicy, lines 789-792: the one retry.
createPolicyRetry ==
    /\ pc = "createPolicyRetry"
    /\ \E ans \in AnsCreatePolicy(CreatedPolicyName(tmpl, cur)) :
        /\ Log("CreatePolicy", CreatedPolicyName(tmpl, cur), ans, "createOrUpdateIAMPolicy")
        /\ policies' = (IF ans = "ok" THEN policies \cup {CreatedPolicyName(tmpl, cur)}
                        ELSE policies)
        /\ IF ans = "ok" THEN Step("createRole", cur, loc) ELSE FailStep(loc)
    /\ UNCHANGED <<outsideAccess, faa, tmpl, roles, attached, start, teardown, caller, tampered>>

\* createOrUpdateIAMRole, lines 803-814 and 828-838, with createIAMRole.
createRole ==
    /\ pc = "createRole"
    /\ \E ans \in AnsCreateRole(CreatedRoleName(tmpl, cur)) :
        /\ Log("CreateRole", CreatedRoleName(tmpl, cur), ans, "createOrUpdateIAMRole")
        /\ roles' = (IF ans = "ok" THEN roles \cup {CreatedRoleName(tmpl, cur)} ELSE roles)
        /\ IF AfterFirstCreateRole(ans) = "roleDone" THEN RoleDone
           ELSE IF AfterFirstCreateRole(ans) = "deleteRole"
           THEN Step("deleteConflictingRole", cur, loc)
           ELSE FailStep(loc)
    /\ UNCHANGED <<outsideAccess, faa, tmpl, policies, attached, start, teardown, caller, tampered>>

\* createOrUpdateIAMRole, lines 815-819: delete the role that is in the way.
deleteConflictingRole ==
    /\ pc = "deleteConflictingRole"
    /\ \E ans \in AnsDeleteRole(RoleNameOf(cur)) :
        /\ Log("DeleteRole", RoleNameOf(cur), ans, "createOrUpdateIAMRole")
        /\ roles' = (IF ans = "ok" THEN roles \ {RoleNameOf(cur)} ELSE roles)
        /\ IF ans = "ok" THEN Step("createRoleRetry", cur, loc) ELSE FailStep(loc)
    /\ UNCHANGED <<outsideAccess, faa, tmpl, policies, attached, start, teardown, caller, tampered>>

\* createOrUpdateIAMRole, lines 821-827: the one retry.
createRoleRetry ==
    /\ pc = "createRoleRetry"
    /\ \E ans \in AnsCreateRole(CreatedRoleName(tmpl, cur)) :
        /\ Log("CreateRole", CreatedRoleName(tmpl, cur), ans, "createOrUpdateIAMRole")
        /\ roles' = (IF ans = "ok" THEN roles \cup {CreatedRoleName(tmpl, cur)} ELSE roles)
        /\ IF ans = "ok" THEN RoleDone ELSE FailStep(loc)
    /\ UNCHANGED <<outsideAccess, faa, tmpl, policies, attached, start, teardown, caller, tampered>>

\* attachIAMPolices, lines 841-853: one AttachRolePolicy per ARN, stopping at
\* the first error; then lines 637-655 of Reconcile.
attachIAMPolices ==
    /\ pc = "attach"
    /\ \E ans \in AnsAttach(RoleNameOf(cur), Head(loc.arns)) :
        /\ Log("AttachRolePolicy", <<RoleNameOf(cur), Head(loc.arns)>>, ans, "attachIAMPolices")
        /\ attached' = (IF ans = "ok" THEN attached \cup {<<RoleNameOf(cur), Head(loc.arns)>>}
                        ELSE attached)
        /\ IF ans # "ok" THEN FailStep(loc)
           ELSE IF Tail(loc.arns) # <<>>
           THEN Step("attach", cur, [loc EXCEPT !.arns = Tail(loc.arns)])
           ELSE IF caller = "Reconcile"
           THEN Step("statusUpdate", SetStatuswithCondition(cur, "Ready"),
                     [loc EXCEPT !.arns = <<>>])
           ELSE Step("done_ok", cur, [loc EXCEPT !.arns = <<>>])
    /\ UNCHANGED <<outsideAccess, faa, tmpl, policies, roles, start, teardown, caller, tampered>>

\* ---------------------------------------------------------------- teardown

\* The provider answers a listing page by page: a page is a non-empty prefix
\* of what is still to be listed, of any length.
PageSizes(all) == IF all = <<>> THEN {0} ELSE 1 .. Len(all)

\* checkAndDeletePolicy, lines 1106-1111: the policy is deleted when its name
\* is the expected custom policy name.
IsCustomPolicy(policyName, crPolicyName, uidLabel) ==
    policyName = getPolicyNameWithUID(crPolicyName, uidLabel)

\* A Reconcile that ignores the error of cleanFederatedRoles.
CleanFailed_RemovesAnyway ==
    /\ teardown' = "err"
    /\ Step("removeFinalizer", cur, loc)

\* cleanFederatedRoles returns err: Reconcile returns it (lines 499-501).
CleanFailed ==
    /\ teardown' = "err"
    /\ Step("end_err", cur, loc)

\* cleanFederatedRoles returns nil: Reconcile removes the finalizer (lines 503-504).
CleanDone(l) ==
    /\ teardown' = "ok"
    /\ Step("removeFinalizer", cur, l)

CleanGoOn(t, l) ==
    /\ teardown' = teardown
    /\ Step(t, cur, l)

\* A sweep that looks at the first page of attached policies only.
AfterAttachedPolicy_FirstPageOnly(l) ==
    IF Tail(l.page) # <<>> THEN "detach" ELSE "deleteRole"

\* After one policy of a page of attached policies (lines 1029-1036).
AfterAttachedPolicy(l) ==
    IF Tail(l.page) # <<>> THEN "detach"
    ELSE IF l.rest # <<>> THEN "listAttached"
    ELSE "deleteRole"

\* cleanFederatedRoles, lines 935-945: the client of the root secret.
cleanGetRootClient ==
    /\ pc = "cleanGetClient"
    /\ \E ans \in {"ok", "Error"} :
        /\ Log("GetClient", "root", ans, "cleanFederatedRoles")
        /\ IF ans = "ok" THEN CleanGoOn("assumeRole", loc) ELSE CleanFailed
    /\ UNCHANGED <<outsideAccess, faa, tmpl, provider, start, caller, tampered>>

\* A cleanFederatedRoles that assumes BYOCAdminAccess-<uid> in every case.
AfterAssumeRole_AlwaysFallsBack(ans) == "assumeRoleBYOC"

\* cleanFederatedRoles, lines 950-955: the fallback is tried when the first
\* AssumeRole returned an error.
AfterAssumeRole(ans) ==
    IF ans = "ok" THEN "cleanGetClient2" ELSE "assumeRoleBYOC"

\* cleanFederatedRoles, lines 947-952: assume OrganizationAccountAccessRole.
assumeRole ==
    /\ pc = "assumeRole"
    /\ \E ans \in AnsPlain :
        /\ Log("AssumeRole", <<cur.acct, <<"OrganizationAccountAccessRole">> >>, ans,
               "cleanFederatedRoles")
        /\ CleanGoOn(AfterAssumeRole(ans), loc)
    /\ UNCHANGED <<outsideAccess, faa, tmpl, provider, start, caller, tampered>>

\* cleanFederatedRoles, lines 954-964: fall back to BYOCAdminAccess-<uid>.
assumeRoleBYOC ==
    /\ pc = "assumeRoleBYOC"
    /\ \E ans \in AnsPlain :
        /\ Log("AssumeRole", <<cur.acct, WithUID(<<"BYOCAdminAccess">>, cur.uid)>>, ans,
               "cleanFederatedRoles")
        /\ IF ans = "ok" THEN CleanGoOn("cleanGetClient2", loc) ELSE CleanFailed
    /\ UNCHANGED <<outsideAccess, faa, tmpl, provider, start, caller, tampered>>

\* cleanFederatedRoles, lines 966-977: the client of the assumed session.
cleanGetAssumedClient ==
    /\ pc = "cleanGetClient2"
    /\ \E ans \in {"ok", "Error"} :
        /\ Log("GetClient", "assumed", ans, "cleanFederatedRoles")
        /\ IF ans = "ok" THEN CleanGoOn("listAttached", [loc EXCEPT !.first = TRUE])
           ELSE CleanFailed
    /\ UNCHANGED <<outsideAccess, faa, tmpl, provider, start, caller, tampered>>

\* cleanFederatedRoles, lines 981-1005 and 1031-1036: one page of the role's
\* attached policies; NoSuchEntity starts the sweep of the local policies.
listAttachedRolePolicies ==
    /\ pc = "listAttached"
    /\ \E ans \in AnsListAttached(RoleNameOf(cur)) :
        LET all == IF loc.first THEN SeqOfArns(ArnsOf(RoleNameOf(cur))) ELSE loc.rest IN
        \E k \in PageSizes(all) :
            /\ ans = "ok" \/ k = Len(all)
            /\ Log("ListAttachedRolePolicies", RoleNameOf(cur), ans, "cleanFederatedRoles")
            /\ IF ans = "NoSuchEntity"
               THEN CleanGoOn("listPolicies", [loc EXCEPT !.first = TRUE,
                                               !.page = <<>>, !.rest = <<>>])
               ELSE IF ans # "ok" THEN CleanFailed
               ELSE CleanGoOn(IF all = <<>> THEN "deleteRole" ELSE "detach",
                              [loc EXCEPT !.first = FALSE, !.page = Prefix(all, k),
                                          !.rest = Suffix(all, k)])
    /\ UNCHANGED <<outsideAccess, faa, tmpl, provider, start, caller, tampered>>

\* cleanFederatedRoles, lines 1006-1028: detach one policy of the page, then
\* checkAndDeletePolicy decides whether it is deleted.
detachRolePolicy ==
    /\ pc = "detach"
    /\ \E ans \in AnsDetach(RoleNameOf(cur), Head(loc.page)) :
        /\ Log("DetachRolePolicy", <<RoleNameOf(cur), Head(loc.page)>>, ans,
               "cleanFederatedRoles")
        /\ attached' = (IF ans = "ok" THEN attached \ {<<RoleNameOf(cur), Head(loc.page)>>}
                        ELSE attached)
        /\ IF ans # "ok" THEN CleanFailed
           ELSE IF IsCustomPolicy(Head(loc.page)[2], tmpl.polName, cur.uid)
           THEN CleanGoOn("deleteAttachedPolicy", loc)
           ELSE CleanGoOn(AfterAttachedPolicy(loc), [loc EXCEPT !.page = Tail(loc.page)])
    /\ UNCHANGED <<outsideAccess, faa, tmpl, policies, roles, start, caller, tampered>>

\* checkAndDeletePolicy, lines 1111-1130, called from line 1025.
deleteAttachedPolicy ==
    /\ pc = "deleteAttachedPolicy"
    /\ \E ans \in AnsDeletePolicy(Head(loc.page)) :
        /\ Log("DeletePolicy", Head(loc.page), ans, "checkAndDeletePolicy")
        /\ policies' = (IF ans = "ok" THEN policies \ {Head(loc.page)[2]} ELSE policies)
        /\ IF ans # "ok" THEN CleanFailed
           ELSE CleanGoOn(AfterAttachedPolicy(loc), [loc EXCEPT !.page = Tail(loc.page)])
    /\ UNCHANGED <<outsideAccess, faa, tmpl, roles, attached, start, caller, tampered>>

\* cleanFederatedRoles, lines 1038-1054: delete the role.
deleteRole ==
    /\ pc = "deleteRole"
    /\ \E ans \in AnsDeleteRole(RoleNameOf(cur)) :
        /\ Log("DeleteRole", RoleNameOf(cur), ans, "cleanFederatedRoles")
        /\ roles' = (IF ans = "ok" THEN roles \ {RoleNameOf(cur)} ELSE roles)
        /\ IF ans = "ok" THEN CleanDone(loc) ELSE CleanFailed
    /\ UNCHANGED <<outsideAccess, faa, tmpl, policies, attached, start, caller, tampered>>

\* The policies of a page that checkAndDeletePolicy deletes (lines 1080-1085).
CustomOnPage(page) ==
    SelectSeq(page, LAMBDA a : IsCustomPolicy(a[2], tmpl.polName, cur.uid))

\* After one page, or one deleted policy, of deleteNonAttachedCustomPolicy.
AfterLocalPolicy(page, rest, l) ==
    IF page # <<>>
    THEN CleanGoOn("deleteLocalPolicy", [l EXCEPT !.page = page, !.rest = rest])
    ELSE IF rest # <<>>
    THEN CleanGoOn("listPolicies", [l EXCEPT !.page = <<>>, !.rest = rest])
    ELSE CleanDone([l EXCEPT !.page = <<>>, !.rest = <<>>])

\* deleteNonAttachedCustomPolicy, lines 1057-1095: one page of the account's
\* local policies.
listPolicies ==
    /\ pc = "listPolicies"
    /\ \E ans \in AnsPlain :
        LET all == IF loc.first THEN SeqOfArns(LocalArns) ELSE loc.rest IN
        \E k \in PageSizes(all) :
            /\ ans = "ok" \/ k = Len(all)
            /\ Log("ListPolicies", "Local", ans, "deleteNonAttachedCustomPolicy")
            /\ IF ans # "ok" THEN CleanFailed
               ELSE AfterLocalPolicy(CustomOnPage(Prefix(all, k)), Suffix(all, k),
                                     [loc EXCEPT !.first = FALSE])
    /\ UNCHANGED <<outsideAccess, faa, tmpl, provider, start, caller, tampered>>

\* checkAndDeletePolicy, lines 1111-1130, called from line 1081.
deleteLocalPolicy ==
    /\ pc = "deleteLocalPolicy"
    /\ \E ans \in AnsDeletePolicy(Head(loc.page)) :
        /\ Log("DeletePolicy", Head(loc.page), ans, "checkAndDeletePolicy")
        /\ policies' = (IF ans = "ok" THEN policies \ {Head(loc.page)[2]} ELSE policies)
        /\ IF ans # "ok" THEN CleanFailed
           ELSE AfterLocalPolicy(Tail(loc.page), loc.rest, loc)
    /\ UNCHANGED <<outsideAccess, faa, tmpl, roles, attached, start, caller, tampered>>

\* ---------------------------------------------------------------- environment

\* A user deletes the request: the store sets the deletion marker, and
\* removes a request that carries no finalizer.
MarkForDeletion ==
    /\ pc = "idle"
    /\ caller = "Reconcile"
    /\ faa.exists
    /\ ~faa.del
    /\ faa' = [faa EXCEPT !.del = TRUE, !.exists = faa.fin]
    /\ UNCHANGED <<outsideAccess, tmpl, provider, pc, cur, loc, calls, start, result, teardown,
                   caller, tampered>>

\* A user deletes the template.
DeleteTemplate ==
    /\ pc = "idle"
    /\ caller = "Reconcile"
    /\ tmpl.exists
    /\ tmpl' = [tmpl EXCEPT !.exists = FALSE]
    /\ UNCHANGED <<outsideAccess, faa, provider, pc, cur, loc, calls, start, result, teardown,
                   caller, tampered>>

\* Someone else detaches a policy from a role of the target account.
ExternalDetach ==
    /\ caller = "Reconcile"
    /\ \E q \in attached : attached' = attached \ {q}
    /\ tampered' = TRUE
    /\ UNCHANGED <<outsideAccess, faa, tmpl, policies, roles, pc, cur, loc, calls, start, result,
                   teardown, caller>>

\* Someone else deletes an unattached custom policy of the target account.
ExternalDeletePolicy ==
    /\ caller = "Reconcile"
    /\ \E n \in policies \ {OtherPolicy} :
        /\ ~IsAttached(<<AccountID, n>>)
        /\ policies' = policies \ {n}
    /\ tampered' = TRUE
    /\ UNCHANGED <<outsideAccess, faa, tmpl, roles, attached, pc, cur, loc, calls, start, result,
                   teardown, caller>>

\* Someone else deletes a role of the target account that has nothing attached.
ExternalDeleteRole ==
    /\ caller = "Reconcile"
    /\ \E r \in roles :
        /\ ArnsOf(r) = {}
        /\ roles' = roles \ {r}
    /\ tampered' = TRUE
    /\ UNCHANGED <<outsideAccess, faa, tmpl, policies, attached, pc, cur, loc, calls, start, result,
                   teardown, caller>>

\* ---------------------------------------------------------------- template: values

\* Status.State of a template that was never validated.
Unset == ""

\* AWSCustomPolicy.Name of a template: none, or a name.
RoleCustomNames == {"", "Pol"}

\* What the provider makes of the policy document built from the statements.
RoleDocs == {"good", "malformed"}

\* Names a template may list as AWSManagedPolicies, in the order it lists them.
RoleManagedNames == <<"A1", "A2", "A3">>

\* The order in which the provider lists the policies of the operator account.
CatalogOrder == RoleManagedNames \o <<"Pol">>

RoleTemplates ==
    [exists : {TRUE}, fin : {FALSE}, del : {FALSE}, state : {Unset}, cond : {None},
     custom : RoleCustomNames, doc : RoleDocs,
     managed : {Prefix(RoleManagedNames, k) : k \in 0 .. MaxManaged}]

NoInstance == [exists |-> FALSE, fin |-> FALSE, del |-> FALSE, state |-> Unset,
               cond |-> None, custom |-> "", doc |-> "good", managed |-> <<>>]

NoRoleLoc == [policies |-> <<>>, rest |-> <<>>, first |-> TRUE]

\* The template reconciler is not running and has nothing to work on.
RoleAtRest ==
    /\ frole = NoInstance
    /\ catalog = {}
    /\ fedramp = FALSE
    /\ rpc = "idle"
    /\ instance = NoInstance
    /\ rloc = NoRoleLoc
    /\ rcalls = <<>>
    /\ rstart = NoInstance
    /\ rresult = "none"
    /\ cfgcalls = <<>>

\* ---------------------------------------------------------------- template: helpers

RoleCall(op, arg, ans) == [op |-> op, arg |-> arg, ans |-> ans]

RoleLog(op, arg, ans) == rcalls' = Append(rcalls, RoleCall(op, arg, ans))

\* Move the template pass to position t with in-memory template i and locals l.
RoleStep(t, i, l) ==
    /\ rpc' = (IF Ends(t) THEN "idle" ELSE t)
    /\ rresult' = (IF t = "end_ok" THEN "ok" ELSE IF t = "end_err" THEN "err" ELSE "none")
    /\ instance' = (IF Ends(t) THEN NoInstance ELSE i)
    /\ rloc' = (IF Ends(t) THEN NoRoleLoc ELSE l)

\* Update and Status().Update of the template.
AnsRoleWrite == (IF frole.exists THEN {"ok"} ELSE {"NotFound"}) \cup {"Error"}

\* client.Update of the template: the finalizers are written; the store deletes
\* a template that has a deletion marker and no finalizer left.
RoleStoreUpdate(i) ==
    [frole EXCEPT !.fin = i.fin, !.exists = ~(frole.del /\ ~i.fin)]

\* client.Status().Update of the template: state and conditions are written.
RoleStoreStatusUpdate(i) == [frole EXCEPT !.state = i.state, !.cond = i.cond]

\* utils.SetAWSFederatedRoleCondition: the type of the condition it sets.
SetAWSFederatedRoleCondition(i, ctype) == [i EXCEPT !.cond = ctype]

\* The answer to the trial CreatePolicy: the SDK refuses an empty name, the
\* provider a malformed document or a name that is taken.
AnsTrialCreate(name, doc) ==
    IF name = "" THEN {"InvalidParameter"}
    ELSE (IF doc = "malformed" THEN {"MalformedPolicyDocument"} ELSE {})
         \cup (IF name \in catalog THEN {"EntityAlreadyExists"} ELSE {})
         \cup (IF doc = "good" /\ name \notin catalog THEN {"ok"} ELSE {})
         \cup {"Other"}

\* buildPolicyNameSlice and policyInSlice.
policyInSlice(policy, policyList) == \E k \in DOMAIN policyList : policyList[k] = policy

\* A Reconcile that only looks up the first managed policy of the template.
ManagedVerdict_FirstOnly(i, policyList) ==
    IF i.managed # <<>> /\ ~policyInSlice(i.managed[1], policyList)
    THEN "Invalid" ELSE "Valid"

\* Lines 1853-1878: Invalid at the first managed policy that is not listed.
ManagedVerdict(i, policyList) ==
    IF \E k \in DOMAIN i.managed : ~policyInSlice(i.managed[k], policyList)
    THEN "Invalid" ELSE "Valid"

\* A Reconcile without the check of lines 1757-1760.
AfterRoleDeletionBlock_Revalidates(i) == "getClient"

\* Lines 1757-1760: a Valid or Invalid template is not reconciled.
AfterRoleDeletionBlock(i) ==
    IF i.state = "Valid" \/ i.state = "Invalid" THEN "end_ok" ELSE "getClient"

\* Lines 1729-1755, after the template was read.
AfterRoleGet(i) ==
    IF ~i.fin THEN "addFinalizer"
    ELSE IF i.del THEN "finalize"
    ELSE AfterRoleDeletionBlock(i)

\* Lines 1781-1782: neither managed policies nor a custom policy.
IsEmptyTemplate(i) == Len(i.managed) = 0 /\ i.custom = ""

\* A trial creation that treats every error like any other.
AfterTrialCreate_NoMalformedCase(ans) ==
    IF ans = "ok" THEN "trialDelete" ELSE "end_err"

\* Lines 1807-1831: what Reconcile does with the answer to the trial creation.
AfterTrialCreate(ans) ==
    IF ans = "ok" THEN "trialDelete"
    ELSE IF ans = "MalformedPolicyDocument" THEN "statusUpdate"
    ELSE "end_err"

\* ---------------------------------------------------------------- template: Reconcile

\* What a step of the template reconciler leaves alone but for the request.
outsideRole == <<accessRest, acctVars, ctlVars, cfgVars>>

\* Reconcile, lines 1710-1755: nothing in fedramp mode; else fetch the template.
roleGet ==
    /\ rpc = "idle"
    /\ frole # NoInstance
    /\ IF fedramp
       THEN /\ rcalls' = <<>>
            /\ RoleStep("end_ok", frole, NoRoleLoc)
       ELSE \E ans \in AnsGet(frole.exists) :
            /\ rcalls' = <<RoleCall("Get", "role", ans)>>
            /\ RoleStep(IF ans = "ok" THEN AfterRoleGet(frole)
                        ELSE IF ans = "NotFound" THEN "end_ok" ELSE "end_err",
                        frole, NoRoleLoc)
    /\ rstart' = frole
    /\ UNCHANGED <<outsideRole, faa, frole, catalog, fedramp>>

\* addFinalizer of the template reconciler (line 1732) and the return of line 1736.
roleAddFinalizer ==
    /\ rpc = "addFinalizer"
    /\ \E ans \in AnsRoleWrite :
        /\ RoleLog("AddFinalizer", "role", ans)
        /\ frole' = (IF ans = "ok" THEN RoleStoreUpdate([instance EXCEPT !.fin = TRUE])
                     ELSE frole)
        /\ RoleStep(IF ans = "ok" THEN "end_ok" ELSE "end_err", instance, rloc)
    /\ UNCHANGED <<outsideRole, faa, catalog, fedramp, rstart>>

\* finalizeFederateRole (line 1744): the requests that use the template are
\* deleted in the store; their own reconciler cleans up the provider side.
finalizeFederateRole ==
    /\ rpc = "finalize"
    /\ \E ans \in {"ok", "Error"} :
        /\ RoleLog("DeleteRequests", "role", ans)
        /\ faa' = (IF ans = "ok" /\ faa.exists /\ ~faa.del
                   THEN [faa EXCEPT !.del = TRUE, !.exists = faa.fin] ELSE faa)
        /\ RoleStep(IF ans = "ok" THEN "removeFinalizer" ELSE "end_err", instance, rloc)
    /\ UNCHANGED <<outsideRole, frole, catalog, fedramp, rstart>>

\* removeFinalizer of the template reconciler (line 1750); on success Reconcile
\* goes on at line 1757.
roleRemoveFinalizer ==
    /\ rpc = "removeFinalizer"
    /\ \E ans \in AnsRoleWrite :
        LET i == [instance EXCEPT !.fin = FALSE] IN
        /\ RoleLog("RemoveFinalizer", "role", ans)
        /\ frole' = (IF ans = "ok" THEN RoleStoreUpdate(i) ELSE frole)
        /\ RoleStep(IF ans = "ok" THEN AfterRoleDeletionBlock(i) ELSE "end_err", i, rloc)
    /\ UNCHANGED <<outsideRole, faa, catalog, fedramp, rstart>>

\* Reconcile, lines 1761-1799: the provider client, the policy document, and
\* the check for a template that declares nothing.
roleGetClient ==
    /\ rpc = "getClient"
    /\ \E ans \in {"ok", "Error"} :
        /\ RoleLog("GetClient", "operator", ans)
        /\ IF ans # "ok" THEN RoleStep("end_err", instance, rloc)
           ELSE IF IsEmptyTemplate(instance)
           THEN RoleStep("statusUpdate",
                         SetAWSFederatedRoleCondition(instance, "Invalid"), rloc)
           ELSE RoleStep("trialCreate", instance, rloc)
    /\ UNCHANGED <<outsideRole, faa, frole, catalog, fedramp, rstart>>

\* Reconcile, lines 1801-1831: the trial creation of the custom policy.
trialCreatePolicy ==
    /\ rpc = "trialCreate"
    /\ \E ans \in AnsTrialCreate(instance.custom, instance.doc) :
        /\ RoleLog("CreatePolicy", instance.custom, ans)
        /\ catalog' = (IF ans = "ok" THEN catalog \cup {instance.custom} ELSE catalog)
        /\ IF AfterTrialCreate(ans) = "statusUpdate"
           THEN RoleStep("statusUpdate",
                         SetAWSFederatedRoleCondition(
                             [instance EXCEPT !.state = "Invalid"], "Invalid"), rloc)
           ELSE RoleStep(AfterTrialCreate(ans), instance, rloc)
    /\ UNCHANGED <<outsideRole, faa, frole, fedramp, rstart>>

\* A Reconcile that only logs the error of the trial policy's delete.
AfterTrialDelete_IgnoresError(ans) == "listPolicies"

\* Lines 1834-1838: the error of the delete is returned.
AfterTrialDelete(ans) == IF ans = "ok" THEN "listPolicies" ELSE "end_err"

\* Reconcile, lines 1833-1839: the trial policy is deleted again.
trialDeletePolicy ==
    /\ rpc = "trialDelete"
    /\ \E ans \in {"ok", "Other"} :
        /\ RoleLog("DeletePolicy", instance.custom, ans)
        /\ catalog' = (IF ans = "ok" THEN catalog \ {instance.custom} ELSE catalog)
        /\ RoleStep(AfterTrialDelete(ans), instance,
                    [rloc EXCEPT !.first = TRUE, !.policies = <<>>, !.rest = <<>>])
    /\ UNCHANGED <<outsideRole, faa, frole, fedramp, rstart>>

\* A getAllPolicies that never follows the marker.
IsTruncated_Never(rest) == FALSE

\* output.IsTruncated: there is more to list.
IsTruncated(rest) == rest # <<>>

\* getAllPolicies, lines 1895-1925, one ListPolicies call per step, and lines
\* 1844-1878 of Reconcile once the listing is complete.
getAllPolicies ==
    /\ rpc = "listPolicies"
    /\ \E ans \in {"ok", "Other"} :
        LET all == IF rloc.first THEN SelectSeq(CatalogOrder, LAMBDA n : n \in catalog)
                   ELSE rloc.rest IN
        \E k \in PageSizes(all) :
            LET got == rloc.policies \o Prefix(all, k) IN
            /\ ans = "ok" \/ k = Len(all)
            /\ RoleLog("ListPolicies", Prefix(all, k), ans)
            /\ IF ans # "ok" THEN RoleStep("end_err", instance, rloc)
               ELSE IF IsTruncated(Suffix(all, k))
               THEN RoleStep("listPolicies", instance,
                             [rloc EXCEPT !.first = FALSE, !.policies = got,
                                          !.rest = Suffix(all, k)])
               ELSE RoleStep("statusUpdate",
                             SetAWSFederatedRoleCondition(
                                 [instance EXCEPT !.state = ManagedVerdict(instance, got)],
                                 ManagedVerdict(instance, got)),
                             [rloc EXCEPT !.first = FALSE, !.policies = got, !.rest = <<>>])
    /\ UNCHANGED <<outsideRole, faa, frole, catalog, fedramp, rstart>>

\* Status().Update of the template (lines 1790, 1819, 1866, 1886): nil after a
\* successful write, the write's error otherwise.
roleUpdateStatus ==
    /\ rpc = "statusUpdate"
    /\ \E ans \in AnsRoleWrite :
        /\ RoleLog("StatusUpdate", instance.state, ans)
        /\ frole' = (IF ans = "ok" THEN RoleStoreStatusUpdate(instance) ELSE frole)
        /\ RoleStep(IF ans = "ok" THEN "end_ok" ELSE "end_err", instance, rloc)
    /\ UNCHANGED <<outsideRole, faa, catalog, fedramp, rstart>>

\* A user deletes the template: the store sets the deletion marker, and
\* removes a template that carries no finalizer.
roleMarkForDeletion ==
    /\ rpc = "idle"
    /\ frole.exists
    /\ ~frole.del
    /\ frole' = [frole EXCEPT !.del = TRUE, !.exists = frole.fin]
    /\ UNCHANGED <<outsideRole, faa, catalog, fedramp, rpc, instance, rloc, rcalls,
                   rstart, rresult>>

\* ---------------------------------------------------------------- validation: values

\* Longest parent list a walk is followed to; the code has no such limit.
MaxWalk == 5

AwsAccount == "acct"
PoolOU == "pool"
OUs == {"a", "b", PoolOU}
ShardName == "shard"
ownerKey == "owner"

\* The account carries no "owner" tag.
NoTag == None
OwnerTags == {NoTag, ShardName, "other"}

\* Values of a feature flag in the operator configmap; "" is a missing key.
FlagValues == {"true", "false", "", "yes"}

\* cm.Data["shard-name"]: whether the key is there, and its value.
ShardValues == {[ok |-> FALSE, val |-> ""], [ok |-> TRUE, val |-> ""],
                [ok |-> TRUE, val |-> ShardName]}

\* What ListParents may answer for one child, in the order it answers.
ParentLists == {<<>>, <<"a">>, <<"b">>, <<PoolOU>>, <<"a", PoolOU>>}

\* Parent relations of the organization, cyclic and malformed ones included.
Organizations == {f \in [{AwsAccount} \cup OUs -> ParentLists] : f[PoolOU] = <<>>}

EligibleAccount == [byoc |-> FALSE, poolOwned |-> TRUE, ready |-> TRUE,
                    awsAccountID |-> AwsAccount]

IneligibleAccounts ==
    {[EligibleAccount EXCEPT !.byoc = TRUE],
     [EligibleAccount EXCEPT !.poolOwned = FALSE],
     [EligibleAccount EXCEPT !.ready = FALSE],
     [EligibleAccount EXCEPT !.awsAccountID = ""],
     [EligibleAccount EXCEPT !.byoc = TRUE, !.awsAccountID = ""]}

NoConfig == [move |-> "", tag |-> "", shard |-> [ok |-> FALSE, val |-> ""]]

NoValLoc == [cm |-> NoConfig, client |-> "none", awsId |-> "", parentList |-> <<>>,
             walkErr |-> "unknown", inPool |-> "unknown", moveAccount |-> FALSE,
             oldOu |-> "", tagEnabled |-> FALSE, org |-> <<>>, tag |-> NoTag]

NoValResult == [how |-> "none", err |-> "nil"]

\* The validation reconciler is not running and has nothing to work on.
AcctAtRest ==
    /\ account = EligibleAccount
    /\ parents = [n \in {AwsAccount} \cup OUs |-> <<>>]
    /\ ownerTag = NoTag
    /\ accountMoveEnabled = FALSE
    /\ accountTagEnabled = FALSE
    /\ vpc = "idle"
    /\ vloc = NoValLoc
    /\ vcalls = <<>>
    /\ vresult = NoValResult

\* ---------------------------------------------------------------- validation: helpers

ValCall(op, arg, ans) == [op |-> op, arg |-> arg, ans |-> ans]

ValLog(op, arg, ans) == vcalls' = Append(vcalls, ValCall(op, arg, ans))

\* The pass goes on at position t with locals l.
ValGoto(t, l) ==
    /\ vpc' = t
    /\ vloc' = l
    /\ vresult' = NoValResult

\* Reconcile returns: how it asks to be run again, and the error that ended it.
ValReturn(how, err, l) ==
    /\ vpc' = "idle"
    /\ vloc' = l
    /\ vresult' = [how |-> how, err |-> err]

\* A call on the nil client, or an index past the end of a slice.
ValPanic(l) ==
    /\ vpc' = "crashed"
    /\ vloc' = l
    /\ vresult' = [how |-> "panic", err |-> "nil"]

\* strconv.ParseBool
ParseBool(s) ==
    [ok  |-> s \in {"1", "t", "T", "TRUE", "true", "True",
                    "0", "f", "F", "FALSE", "false", "False"},
     val |-> s \in {"1", "t", "T", "TRUE", "true", "True"}]

\* A ValidateAccountOrigin that does not look at the account's state.
ValidateAccountOrigin_IgnoresReady(a) ==
    IF a.byoc THEN "InvalidAccount"
    ELSE IF ~a.poolOwned THEN "InvalidAccount"
    ELSE "nil"

ValidateAccountOrigin(a) ==
    IF a.byoc THEN "InvalidAccount"
    ELSE IF ~a.poolOwned THEN "InvalidAccount"
    ELSE IF ~a.ready THEN "InvalidAccount"
    ELSE "nil"

ValidateAwsAccountId(a) ==
    IF a.awsAccountID = "" THEN "MissingAWSAccount" ELSE "nil"

\* The predicate ValidateAccountOU hands to the walk.
isPoolOU(s, poolOU) == s = poolOU

\* What IsAccountInPoolOU makes of the walk's error and the parents it collected.
IsAccountInPoolOU(walkErr, parentList) ==
    IF walkErr # "nil" THEN FALSE
    ELSE IF Len(parentList) = 1 THEN TRUE
    ELSE FALSE

\* Reconcile after ValidateAccountOU returned nil: the shard name and the tags.
AfterOU(l) ==
    IF ~l.cm.shard.ok THEN ValReturn("DoNotRequeue", "nil", l)
    ELSE IF l.cm.shard.val = "" THEN ValReturn("DoNotRequeue", "nil", l)
    ELSE ValGoto("listTags", [l EXCEPT !.tagEnabled = accountTagEnabled])

\* ValidateAccountOU once the walk has returned.
AfterWalk(walkErr, l) ==
    LET inPool == IsAccountInPoolOU(walkErr, l.parentList)
        m == [l EXCEPT !.walkErr = walkErr,
                       !.inPool = IF inPool THEN "yes" ELSE "no"]
    IN  IF inPool THEN AfterOU(m)
        ELSE ValGoto("moveList", [m EXCEPT !.moveAccount = accountMoveEnabled])

TagsVerdict_Lenient(tag, shardName, tagEnabled) ==
    IF tag = NoTag
    THEN IF tagEnabled THEN "tag" ELSE "MissingTag"
    ELSE IF shardName # tag /\ tagEnabled THEN "untag" ELSE "nil"

\* ValidateAccountTags, lines 161-211, on the tags the provider listed: what to
\* do next ("untag", "tag"), or what to return.
TagsVerdict(tag, shardName, tagEnabled) ==
    IF tag = NoTag
    THEN IF tagEnabled THEN "tag" ELSE "MissingTag"
    ELSE IF shardName # tag
    THEN IF tagEnabled THEN "untag" ELSE "IncorrectOwnerTag"
    ELSE "nil"

\* What the provider answers to MoveAccount.
AnsMoveAccount(src, dst) ==
    IF src = dst THEN {"DuplicateAccount", "Other"} ELSE {"ok", "Other"}

\* ---------------------------------------------------------------- validation: steps

outsideAcct == <<faa, accessRest, roleVars, ctlVars, cfgVars>>

\* Reconcile, lines 276-280: read the account.
validationGet ==
    /\ vpc = "idle"
    /\ \E ans \in {"ok", "NotFound", "Error"} :
        /\ vcalls' = <<ValCall("Get", "account", ans)>>
        /\ LET l == [NoValLoc EXCEPT !.org = parents, !.tag = ownerTag]
           IN  IF ans = "ok" THEN ValGoto("getConfigMap", l)
               ELSE ValReturn("DoNotRequeue", "Get", l)
    /\ UNCHANGED <<outsideAcct, account, parents, ownerTag, accountMoveEnabled,
                   accountTagEnabled>>

\* Reconcile, lines 282-302: read the configmap and the two feature flags.
getOperatorConfigMap ==
    /\ vpc = "getConfigMap"
    /\ \E ans \in {"ok", "Error"} :
        /\ ValLog("GetConfigMap", "operator", ans)
        /\ IF ans # "ok"
           THEN /\ ValReturn("RequeueAfter", "ConfigMap", vloc)
                /\ UNCHANGED <<accountMoveEnabled, accountTagEnabled>>
           ELSE \E move \in FlagValues, tag \in FlagValues, shard \in ShardValues :
                /\ accountMoveEnabled' = (IF ParseBool(move).ok THEN ParseBool(move).val
                                          ELSE accountMoveEnabled)
                /\ accountTagEnabled' = (IF ParseBool(tag).ok THEN ParseBool(tag).val
                                         ELSE accountTagEnabled)
                /\ ValGoto("getClient",
                           [vloc EXCEPT !.cm = [move |-> move, tag |-> tag,
                                                shard |-> shard]])
    /\ UNCHANGED <<outsideAcct, account, parents, ownerTag>>

\* Reconcile of another account, running at the same time (the controller is
\* set up with MaxConcurrentReconciles, line 375): its lines 288-302 write the
\* two package variables from the configmap it read.
concurrentReconcile ==
    /\ \E move \in FlagValues, tag \in FlagValues :
        /\ accountMoveEnabled' = (IF ParseBool(move).ok THEN ParseBool(move).val
                                  ELSE accountMoveEnabled)
        /\ accountTagEnabled' = (IF ParseBool(tag).ok THEN ParseBool(tag).val
                                 ELSE accountTagEnabled)
    /\ UNCHANGED <<outsideAcct, account, parents, ownerTag, vpc, vloc, vcalls, vresult>>

\* Reconcile, lines 304-332: the client, whose error is only logged, then the
\* two checks on the account itself; IsAccountInPoolOU, lines 99-102.
validationGetClient ==
    /\ vpc = "getClient"
    /\ \E ans \in {"ok", "Error"} :
        /\ ValLog("GetClient", "validation", ans)
        /\ LET l == [vloc EXCEPT !.client = IF ans = "ok" THEN "ok" ELSE "nil"]
           IN  IF ValidateAccountOrigin(account) # "nil"
               THEN ValReturn("DoNotRequeue", ValidateAccountOrigin(account), l)
               ELSE IF ValidateAwsAccountId(account) # "nil"
               THEN ValReturn("DoNotRequeue", ValidateAwsAccountId(account), l)
               ELSE ValGoto("walk", [l EXCEPT !.awsId = account.awsAccountID])
    /\ UNCHANGED <<outsideAcct, account, parents, ownerTag, accountMoveEnabled,
                   accountTagEnabled>>

\* One call of ParentsTillPredicate, lines 72-94: one ListParents request.
ParentsTillPredicate ==
    /\ vpc = "walk"
    /\ Len(vloc.parentList) < MaxWalk
    /\ IF vloc.client = "nil"
       THEN /\ ValPanic(vloc)
            /\ UNCHANGED vcalls
       ELSE \E ans \in {"ok", "Other"} :
            /\ ValLog("ListParents", vloc.awsId, ans)
            /\ LET ps == parents[vloc.awsId]
               IN  IF ans # "ok" THEN AfterWalk("Other", vloc)
                   ELSE IF Len(ps) = 0 THEN AfterWalk("nil", vloc)
                   ELSE IF Len(ps) > 1 THEN AfterWalk("MoreThanOne", vloc)
                   ELSE LET id == ps[1]
                            l == [vloc EXCEPT !.parentList = Append(@, id)]
                        IN  IF isPoolOU(id, PoolOU) THEN AfterWalk("nil", l)
                            ELSE ValGoto("walk", [l EXCEPT !.awsId = id])
    /\ UNCHANGED <<outsideAcct, account, parents, ownerTag, accountMoveEnabled,
                   accountTagEnabled>>

\* MoveAccount, lines 113-123 and 135-138: ask for the account's parents and
\* take the first as the source.
listParentsForMove ==
    /\ vpc = "moveList"
    /\ IF vloc.client = "nil"
       THEN /\ ValPanic(vloc)
            /\ UNCHANGED vcalls
       ELSE \E ans \in {"ok", "Other"} :
            /\ ValLog("ListParents", account.awsAccountID, ans)
            /\ LET ps == parents[account.awsAccountID]
               IN  IF ans # "ok"
                   THEN ValReturn("RequeueAfter", "AccountMoveFailed", vloc)
                   ELSE IF Len(ps) = 0 THEN ValPanic(vloc)
                   ELSE LET l == [vloc EXCEPT !.oldOu = ps[1]]
                        IN  IF vloc.moveAccount THEN ValGoto("move", l)
                            ELSE AfterOU(l)
    /\ UNCHANGED <<outsideAcct, account, parents, ownerTag, accountMoveEnabled,
                   accountTagEnabled>>

\* MoveAccount, lines 123-134: the MoveAccount request.
MoveAccount ==
    /\ vpc = "move"
    /\ \E ans \in AnsMoveAccount(vloc.oldOu, PoolOU) :
        /\ ValLog("MoveAccount", [src |-> vloc.oldOu, dst |-> PoolOU], ans)
        /\ IF ans = "ok"
           THEN /\ parents' = [parents EXCEPT ![account.awsAccountID] = <<PoolOU>>]
                /\ AfterOU(vloc)
           ELSE /\ ValReturn("RequeueAfter", "AccountMoveFailed", vloc)
                /\ UNCHANGED parents
    /\ UNCHANGED <<outsideAcct, account, ownerTag, accountMoveEnabled,
                   accountTagEnabled>>

\* ValidateAccountTags, lines 151-212, up to its first change of a tag.
ValidateAccountTags ==
    /\ vpc = "listTags"
    /\ IF vloc.client = "nil"
       THEN /\ ValPanic(vloc)
            /\ UNCHANGED vcalls
       ELSE \E ans \in {"ok", "Other"} :
            /\ ValLog("ListTagsForResource", account.awsAccountID, ans)
            /\ LET v == TagsVerdict(ownerTag, vloc.cm.shard.val, vloc.tagEnabled)
               IN  IF ans # "ok" THEN ValReturn("RequeueWithError", "Other", vloc)
                   ELSE IF v \in {"tag", "untag"} THEN ValGoto(v, vloc)
                   ELSE IF v = "nil" THEN ValReturn("DoNotRequeue", "nil", vloc)
                   ELSE ValReturn("RequeueWithError", v, vloc)
    /\ UNCHANGED <<outsideAcct, account, parents, ownerTag, accountMoveEnabled,
                   accountTagEnabled>>

\* untagAccountOwner, lines 141-149, and its caller, lines 165-172.
untagAccountOwner ==
    /\ vpc = "untag"
    /\ \E ans \in {"ok", "Other"} :
        /\ ValLog("UntagResource", ownerKey, ans)
        /\ IF ans = "ok"
           THEN /\ ownerTag' = NoTag
                /\ ValGoto("tag", vloc)
           ELSE /\ ValReturn("RequeueWithError", "AccountTagFailed", vloc)
                /\ UNCHANGED ownerTag
    /\ UNCHANGED <<outsideAcct, account, parents, accountMoveEnabled,
                   accountTagEnabled>>

\* account.TagAccount and its callers, lines 174-183 and 197-205: one
\* TagResource request that sets the "owner" tag to the shard name.
TagAccount ==
    /\ vpc = "tag"
    /\ \E ans \in {"ok", "Other"} :
        /\ ValLog("TagResource", ownerKey, ans)
        /\ IF ans = "ok"
           THEN /\ ownerTag' = vloc.cm.shard.val
                /\ ValReturn("DoNotRequeue", "nil", vloc)
           ELSE /\ ValReturn("RequeueWithError", "AccountTagFailed", vloc)
                /\ UNCHANGED ownerTag
    /\ UNCHANGED <<outsideAcct, account, parents, accountMoveEnabled,
                   accountTagEnabled>>

\* ---------------------------------------------------------------- account: values

AccountStates == {"", "Creating", "PendingVerification", "Pending", "Ready", "Failed"}

AccountFinalizer == "finalizer.aws.managed.openshift.io"

\* The attributes of an Account the predicates read.
Snapshots ==
    [state : AccountStates, claimed : BOOLEAN, byoc : BOOLEAN,
     claimLink : {"", "link"}, del : BOOLEAN,
     finalizers : SUBSET {AccountFinalizer, "fakeFinalizer0"}]

\* The test builder's default account (newTestAccountBuilder).
DefaultSnapshot ==
    [state |-> "Ready", claimed |-> FALSE, byoc |-> FALSE, claimLink |-> "",
     del |-> FALSE, finalizers |-> {}]

NotEvaluated == [evaluated |-> FALSE]

\* What the provider answers to CreateAccount: "ok", or an error code.
CreateAnswers ==
    {"ok", "ConstraintViolationException", "ServiceException",
     "TooManyRequestsException", "DuplicateAccountException", "Other"}

\* &organizations.DescribeCreateAccountStatusOutput{}
EmptyOutput == [state |-> "", reason |-> ""]

\* What DescribeCreateAccountStatus reports when it answers.
StatusOutputs ==
    {[state |-> "SUCCEEDED", reason |-> ""]}
    \cup [state : {"FAILED"},
          reason : {"ACCOUNT_LIMIT_EXCEEDED", "EMAIL_ALREADY_EXISTS", "INTERNAL_FAILURE"}]

\* The errors DescribeCreateAccountStatus can return instead.
DescribeErrors == {"ServiceException", "AccessDeniedException"}

\* The answers of DescribeCreateAccountStatus: an output and no error, or no
\* output and an error.
DescribeAnswers ==
    {[out |-> o, err |-> "nil"] : o \in StatusOutputs}
    \cup {[out |-> EmptyOutput, err |-> e] : e \in DescribeErrors}

NoOutcome == [out |-> EmptyOutput, err |-> "none"]

\* No snapshot is being evaluated and CreateAccount is not running.
CtlAtRest ==
    /\ snap = DefaultSnapshot
    /\ ev = NotEvaluated
    /\ cpc = "idle"
    /\ ccalls = <<>>
    /\ cout = NoOutcome

\* ---------------------------------------------------------------- account: predicates

HasState(a) == a.state # ""

IsReady(a) == a.state = "Ready"

IsCreating(a) == a.state = "Creating"

IsClaimed(a) == a.claimed

HasClaimLink(a) == a.claimLink # ""

IsPendingDeletion(a) == a.del

IsBYOC(a) == a.byoc

HasAwsv1alpha1Finalizer(a) == AccountFinalizer \in a.finalizers

IsReadyUnclaimedAndHasClaimLink(a) == IsReady(a) /\ HasClaimLink(a) /\ ~IsClaimed(a)

IsBYOCPendingDeletionWithFinalizer(a) ==
    IsPendingDeletion(a) /\ IsBYOC(a) /\ HasAwsv1alpha1Finalizer(a)

IsBYOCAndNotReady(a) == IsBYOC(a) /\ ~IsReady(a)

IsUnclaimedAndHasNoState(a) == ~HasState(a) /\ ~IsClaimed(a)

IsUnclaimedAndIsCreating(a) == ~IsClaimed(a) /\ IsCreating(a)

\* A ReadyForInitialization that takes every BYOC account that is not Ready.
ReadyForInitialization_NotReady(a) ==
    IsBYOCAndNotReady(a) \/ IsUnclaimedAndIsCreating(a)

ReadyForInitialization(a) ==
    (IsBYOC(a) /\ ~HasState(a)) \/ IsUnclaimedAndIsCreating(a)

\* ---------------------------------------------------------------- account: CreateAccount

\* A classification that knows the generic error only.
ClassifyCreateError_Generic(code) == "ErrAwsFailedCreateAccount"

\* The error CreateAccount returns for the code of a failed create call.
ClassifyCreateError(code) ==
    IF code = "ConstraintViolationException" THEN "ErrAwsAccountLimitExceeded"
    ELSE IF code = "ServiceException" THEN "ErrAwsInternalFailure"
    ELSE IF code = "TooManyRequestsException" THEN "ErrAwsTooManyRequests"
    ELSE "ErrAwsFailedCreateAccount"

\* The error CreateAccount returns for the reason of a FAILED status.
ClassifyFailureReason(reason) ==
    IF reason = "ACCOUNT_LIMIT_EXCEEDED" THEN "ErrAwsAccountLimitExceeded"
    ELSE "ErrAwsFailedCreateAccount"

outsideCtl == <<faa, accessRest, roleVars, acctVars, cfgVars>>

\* The compound predicates of one snapshot.
Evaluate ==
    /\ ~ev.evaluated
    /\ ev' = [evaluated |-> TRUE,
              IsReadyUnclaimedAndHasClaimLink |-> IsReadyUnclaimedAndHasClaimLink(snap),
              IsBYOCPendingDeletionWithFinalizer |->
                  IsBYOCPendingDeletionWithFinalizer(snap),
              IsBYOCAndNotReady |-> IsBYOCAndNotReady(snap),
              ReadyForInitialization |-> ReadyForInitialization(snap),
              IsUnclaimedAndHasNoState |-> IsUnclaimedAndHasNoState(snap),
              IsUnclaimedAndIsCreating |-> IsUnclaimedAndIsCreating(snap)]
    /\ UNCHANGED <<outsideCtl, snap, cpc, ccalls, cout>>

\* CreateAccount: the create request.
CreateAccount ==
    /\ cpc = "idle"
    /\ cout = NoOutcome
    /\ \E ans \in CreateAnswers :
        /\ ccalls' = Append(ccalls, [op |-> "CreateAccount", ans |-> ans,
                                     out |-> EmptyOutput])
        /\ IF ans = "ok"
           THEN /\ cpc' = "describe"
                /\ UNCHANGED cout
           ELSE /\ cpc' = "idle"
                /\ cout' = [out |-> EmptyOutput, err |-> ClassifyCreateError(ans)]
    /\ UNCHANGED <<outsideCtl, snap, ev>>

\* CreateAccount: the status check that follows an accepted create request.
describeCreateAccountStatus ==
    /\ cpc = "describe"
    /\ \E ans \in DescribeAnswers :
        /\ ccalls' = Append(ccalls, [op |-> "DescribeCreateAccountStatus",
                                     ans |-> IF ans.err = "nil" THEN "ok" ELSE ans.err,
                                     out |-> ans.out])
        /\ cout' = IF ans.err # "nil" THEN [out |-> EmptyOutput, err |-> ans.err]
                   ELSE IF ans.out.state = "FAILED"
                   THEN [out |-> EmptyOutput,
                         err |-> ClassifyFailureReason(ans.out.reason)]
                   ELSE [out |-> ans.out, err |-> "nil"]
        /\ cpc' = "idle"
    /\ UNCHANGED <<outsideCtl, snap, ev>>

\* ---------------------------------------------------------------- config

\* Calls of package config in one run; the code has no such limit.
MaxConfigCalls == 4

\* awsv1alpha1.AwsUSEastOneRegion and awsv1alpha1.AwsUSGovEastOneRegion.
AwsUSEastOneRegion == "us-east-1"
AwsUSGovEastOneRegion == "us-gov-east-1"

\* Values the configmap may hold under the key "fedramp".
FedrampValues == {"true", "false", "1", "0", "T", "False", "yes", ""}

\* The Data of the default configmap: the key "fedramp" is optional.
ConfigMaps ==
    {[k \in D |-> IF k = "fedramp" THEN v ELSE "ou-root"] :
        D \in {{"root"}, {"root", "fedramp"}}, v \in FedrampValues}

\* A SetIsFedramp that falls back to false on a value it cannot parse.
FlagAfterSet_ResetsOnError(data, old) ==
    IF "fedramp" \notin DOMAIN data THEN FALSE ELSE ParseBool(data.fedramp).val

\* SetIsFedramp, lines 46-57: the flag after the call.
FlagAfterSet(data, old) ==
    IF "fedramp" \notin DOMAIN data THEN FALSE
    ELSE IF ~ParseBool(data.fedramp).ok THEN old
    ELSE ParseBool(data.fedramp).val

\* SetIsFedramp, lines 46-57: the error it returns.
SetIsFedrampError(data) ==
    IF "fedramp" \notin DOMAIN data THEN "nil"
    ELSE IF ~ParseBool(data.fedramp).ok
    THEN "Invalid value for configmap fedramp"
    ELSE "nil"

\* GetDefaultRegion, lines 65-71.
GetDefaultRegion == IF fedramp THEN AwsUSGovEastOneRegion ELSE AwsUSEastOneRegion

\* GetIAMArn, lines 74-83.
GetIAMArn(awsAccountID, awsResourceType, awsResourceID) ==
    LET awsAPI == IF fedramp THEN "aws-us-gov" ELSE "aws" IN
    "arn:" \o awsAPI \o ":iam::" \o awsAccountID \o ":" \o awsResourceType
           \o "/" \o awsResourceID

\* What a call of package config leaves alone.
outsideConfig == <<faa, accessRest, acctVars, ctlVars, frole, catalog, rpc, instance,
                   rloc, rcalls, rstart, rresult>>

\* The operator reads the default configmap and calls SetIsFedramp.
SetIsFedramp ==
    /\ Len(cfgcalls) < MaxConfigCalls
    /\ \E data \in ConfigMaps :
        /\ fedramp' = FlagAfterSet(data, fedramp)
        /\ cfgcalls' = Append(cfgcalls, [op |-> "SetIsFedramp", arg |-> data,
                                         ans |-> SetIsFedrampError(data)])
    /\ UNCHANGED outsideConfig

\* Some caller asks for the default region.
callGetDefaultRegion ==
    /\ Len(cfgcalls) < MaxConfigCalls
    /\ cfgcalls' = Append(cfgcalls, [op |-> "GetDefaultRegion", arg |-> <<>>,
                                     ans |-> GetDefaultRegion])
    /\ UNCHANGED <<outsideConfig, fedramp>>

\* Some caller builds the ARN of a role or of a policy.
callGetIAMArn ==
    /\ Len(cfgcalls) < MaxConfigCalls
    /\ \E type \in {"role", "policy"} :
        cfgcalls' = Append(cfgcalls, [op |-> "GetIAMArn",
                                      arg |-> <<AccountID, type, "AdministratorAccess">>,
                                      ans |-> GetIAMArn(AccountID, type,
                                                        "AdministratorAccess")])
    /\ UNCHANGED <<outsideConfig, fedramp>>

\* ---------------------------------------------------------------- specification

Templates ==
    [exists : BOOLEAN, name : {TemplateName}, polName : CustomPolicyNames,
     managed : {Prefix(ManagedNames, k) : k \in 0 .. MaxManaged}]

FreshFAA == [exists |-> TRUE, fin |-> FALSE, del |-> FALSE, uid |-> None,
             acct |-> None, state |-> "None", url |-> None]

Init ==
    /\ faa = FreshFAA
    /\ tmpl \in Templates
    /\ policies = {OtherPolicy}
    /\ roles = {}
    /\ attached = {}
    /\ pc = "idle"
    /\ cur = NoCur
    /\ loc = NoLoc
    /\ calls = <<>>
    /\ start = FreshFAA
    /\ result = "none"
    /\ teardown = "none"
    /\ caller = "Reconcile"
    /\ tampered = FALSE
    /\ RoleAtRest
    /\ AcctAtRest
    /\ CtlAtRest

Next ==
    \/ GetFAA
    \/ GetRole
    \/ addFinalizer
    \/ removeFinalizer
    \/ assignUID
    \/ getClient
    \/ getCallerIdentity
    \/ assignAccountID
    \/ updateStatus
    \/ policyGetCallerIdentity
    \/ createPolicy
    \/ deleteConflictingPolicy
    \/ createPolicyRetry
    \/ createRole
    \/ deleteConflictingRole
    \/ createRoleRetry
    \/ attachIAMPolices
    \/ cleanGetRootClient
    \/ assumeRole
    \/ assumeRoleBYOC
    \/ cleanGetAssumedClient
    \/ listAttachedRolePolicies
    \/ detachRolePolicy
    \/ deleteAttachedPolicy
    \/ deleteRole
    \/ listPolicies
    \/ deleteLocalPolicy
    \/ MarkForDeletion
    \/ DeleteTemplate
    \/ ExternalDetach
    \/ ExternalDeletePolicy
    \/ ExternalDeleteRole

Spec == Init /\ [][Next]_vars

\* The steps of Reconcile and of the functions it calls, without the
\* environment's.
ReconcileStep ==
    \/ GetFAA \/ GetRole \/ addFinalizer \/ removeFinalizer \/ assignUID
    \/ getClient \/ getCallerIdentity \/ assignAccountID \/ updateStatus
    \/ policyGetCallerIdentity \/ createPolicy \/ deleteConflictingPolicy
    \/ createPolicyRetry \/ createRole \/ deleteConflictingRole \/ createRoleRetry
    \/ attachIAMPolices \/ cleanGetRootClient \/ assumeRole \/ assumeRoleBYOC
    \/ cleanGetAssumedClient \/ listAttachedRolePolicies \/ detachRolePolicy
    \/ deleteAttachedPolicy \/ deleteRole \/ listPolicies \/ deleteLocalPolicy

\* The same program under a dispatcher that runs a started pass to its end
\* and invokes Reconcile again and again.
SpecLive == Init /\ [][Next]_vars /\ WF_vars(ReconcileStep)

\* The create-or-replace driver: policy create-or-replace, role
\* create-or-replace, both once more, then the attachment, for a request that
\* has its labels, against a healthy provider in which the policy and the role
\* may already exist.
InitTwice ==
    /\ \E uid \in UIDs :
        faa = [FreshFAA EXCEPT !.fin = TRUE, !.uid = uid, !.acct = AccountID]
    /\ tmpl \in {t \in Templates : t.exists}
    /\ policies \in {{OtherPolicy}, {OtherPolicy, CreatedPolicyName(tmpl, faa)}}
    /\ roles \in {{}, {CreatedRoleName(tmpl, faa)}}
    /\ attached = {}
    /\ pc = "polGci"
    /\ cur = faa
    /\ loc = [NoLoc EXCEPT !.accountID = AccountID, !.round = 1]
    /\ calls = <<>>
    /\ start = faa
    /\ result = "none"
    /\ teardown = "none"
    /\ caller = "Twice"
    /\ tampered = FALSE
    /\ RoleAtRest
    /\ AcctAtRest
    /\ CtlAtRest

NextTwice ==
    \/ policyGetCallerIdentity
    \/ createPolicy
    \/ deleteConflictingPolicy
    \/ createPolicyRetry
    \/ createRole
    \/ deleteConflictingRole
    \/ createRoleRetry
    \/ attachIAMPolices

SpecTwice == InitTwice /\ [][NextTwice]_vars

\* The requests of the other reconciler at rest, for the template reconciler.
AccessAtRest ==
    /\ tmpl = [exists |-> TRUE, name |-> TemplateName, polName |-> <<"CP">>,
               managed |-> <<>>]
    /\ policies = {OtherPolicy}
    /\ roles = {}
    /\ attached = {}
    /\ pc = "idle"
    /\ cur = NoCur
    /\ loc = NoLoc
    /\ calls = <<>>
    /\ start = FreshFAA
    /\ result = "none"
    /\ teardown = "none"
    /\ caller = "Role"
    /\ tampered = FALSE

\* The template reconciler: a new template, a provider listing that holds any
\* of the names, and a request that uses the template.
InitRole ==
    /\ frole \in RoleTemplates
    /\ catalog \in SUBSET {CatalogOrder[k] : k \in DOMAIN CatalogOrder}
    /\ fedramp \in BOOLEAN
    /\ rpc = "idle"
    /\ instance = NoInstance
    /\ rloc = NoRoleLoc
    /\ rcalls = <<>>
    /\ rstart = NoInstance
    /\ rresult = "none"
    /\ cfgcalls = <<>>
    /\ faa = [FreshFAA EXCEPT !.fin = TRUE]
    /\ AccessAtRest
    /\ AcctAtRest
    /\ CtlAtRest

NextRole ==
    \/ roleGet
    \/ roleAddFinalizer
    \/ finalizeFederateRole
    \/ roleRemoveFinalizer
    \/ roleGetClient
    \/ trialCreatePolicy
    \/ trialDeletePolicy
    \/ getAllPolicies
    \/ roleUpdateStatus
    \/ roleMarkForDeletion

SpecRole == InitRole /\ [][NextRole]_vars

\* The steps of the template's Reconcile, without the user's.
RoleReconcileStep ==
    \/ roleGet \/ roleAddFinalizer \/ finalizeFederateRole \/ roleRemoveFinalizer
    \/ roleGetClient \/ trialCreatePolicy \/ trialDeletePolicy \/ getAllPolicies
    \/ roleUpdateStatus

\* The same program under a dispatcher that runs a started pass to its end
\* and invokes Reconcile again and again.
SpecRoleLive == InitRole /\ [][NextRole]_vars /\ WF_vars(RoleReconcileStep)

\* The validation reconciler: an account, a parent relation and an owner tag
\* at the provider; an account that fails the first checks needs neither.
InitAcct ==
    /\ \/ /\ account = EligibleAccount
          /\ parents \in Organizations
          /\ ownerTag \in OwnerTags
       \/ /\ account \in IneligibleAccounts
          /\ parents = [n \in {AwsAccount} \cup OUs |-> <<PoolOU>>]
          /\ ownerTag = NoTag
    /\ accountMoveEnabled = FALSE
    /\ accountTagEnabled = FALSE
    /\ vpc = "idle"
    /\ vloc = NoValLoc
    /\ vcalls = <<>>
    /\ vresult = NoValResult
    /\ faa = FreshFAA
    /\ AccessAtRest
    /\ RoleAtRest
    /\ CtlAtRest

NextAcct ==
    \/ validationGet
    \/ getOperatorConfigMap
    \/ validationGetClient
    \/ ParentsTillPredicate
    \/ listParentsForMove
    \/ MoveAccount
    \/ ValidateAccountTags
    \/ untagAccountOwner
    \/ TagAccount

SpecAcct == InitAcct /\ [][NextAcct]_vars

\* The validation pass of one eligible account while passes for other accounts
\* run, in organizations whose units all sit directly under the pool.
InitConcurrent ==
    /\ account = EligibleAccount
    /\ parents \in {f \in Organizations : \A ou \in OUs \ {PoolOU} : f[ou] = <<PoolOU>>}
    /\ ownerTag \in OwnerTags
    /\ accountMoveEnabled = FALSE
    /\ accountTagEnabled = FALSE
    /\ vpc = "idle"
    /\ vloc = NoValLoc
    /\ vcalls = <<>>
    /\ vresult = NoValResult
    /\ faa = FreshFAA
    /\ AccessAtRest
    /\ RoleAtRest
    /\ CtlAtRest

NextConcurrent ==
    \/ validationGet
    \/ getOperatorConfigMap
    \/ validationGetClient
    \/ ParentsTillPredicate
    \/ listParentsForMove
    \/ MoveAccount
    \/ ValidateAccountTags
    \/ untagAccountOwner
    \/ TagAccount
    \/ concurrentReconcile

SpecConcurrent == InitConcurrent /\ [][NextConcurrent]_vars

\* The account controller's helpers: any snapshot, and one run of CreateAccount.
InitAccount ==
    /\ snap \in Snapshots
    /\ ev = NotEvaluated
    /\ cpc = "idle"
    /\ ccalls = <<>>
    /\ cout = NoOutcome
    /\ faa = FreshFAA
    /\ AccessAtRest
    /\ RoleAtRest
    /\ AcctAtRest

NextAccount ==
    \/ Evaluate
    \/ CreateAccount
    \/ describeCreateAccountStatus

SpecAccount == InitAccount /\ [][NextAccount]_vars

\* Package config: the flag as the package declares it (line 41), and any
\* sequence of calls.
InitConfig ==
    /\ faa = FreshFAA
    /\ AccessAtRest
    /\ RoleAtRest
    /\ AcctAtRest
    /\ CtlAtRest

NextConfig ==
    \/ SetIsFedramp
    \/ callGetDefaultRegion
    \/ callGetIAMArn

SpecConfig == InitConfig /\ [][NextConfig]_vars



\* ---------------------------------------------------------------- claims

Calls == DOMAIN calls

\* A pass of Reconcile has returned and no other has started.
PassEnded == caller = "Reconcile" /\ pc = "idle" /\ result # "none"

\* No store call of the pass failed with an error of the store itself.
StoreWorked == \A i \in Calls : calls[i].ans # "Error"

Issued(op) == \E i \in Calls : calls[i].op = op

Answered(op, ans) == \E i \in Calls : calls[i].op = op /\ calls[i].ans = ans

NoProviderCall == \A i \in Calls : calls[i].op \notin ProviderOps

\* The stored request no longer carries the finalizer.
FinalizerGone == ~(faa.exists /\ faa.fin)

\* C1: no CreatePolicy and no CreateRole call is issued while the request
\* does not carry the finalizer, in any pass.
C1_CreateOnlyWithFinalizer ==
    \A i \in Calls : calls[i].op \in CreateOps => calls[i].fin

\* C2, for a pass whose store calls all succeed: a request without the
\* finalizer at the start of a pass has it at the end, and the pass assigned
\* no uid, issued no provider call and left the state as it was.
C2_AlwaysGainsFinalizer ==
    (PassEnded /\ StoreWorked /\ start.exists /\ ~start.fin) =>
        /\ faa.fin
        /\ faa.uid = start.uid
        /\ NoProviderCall
        /\ faa.state = start.state

\* C3 as claimed: in a pass that starts with the deletion marker and the
\* finalizer, the finalizer is removed if and only if cleanFederatedRoles
\* returned nil; when it returned an error the finalizer stays and the pass
\* returns the error.
C3_RemovedIffTeardownOk ==
    (PassEnded /\ start.exists /\ start.del /\ start.fin) =>
        /\ FinalizerGone <=> teardown = "ok"
        /\ teardown = "err" => (faa.fin /\ result = "err")

\* C3 as amended: the finalizer is removed if and only if cleanFederatedRoles
\* returned nil and the store accepted the update of removeFinalizer, which
\* the pass issues exactly when cleanFederatedRoles returned nil; when
\* cleanFederatedRoles returned an error the finalizer stays and the pass
\* returns the error.
C3_RemovedOnlyAfterTeardown ==
    (PassEnded /\ start.exists /\ start.del /\ start.fin) =>
        /\ FinalizerGone <=> (teardown = "ok" /\ Answered("RemoveFinalizer", "ok"))
        /\ Issued("RemoveFinalizer") <=> teardown = "ok"
        /\ teardown = "err" => (faa.exists /\ faa.fin /\ result = "err")

C3_Witness ==
    /\ PassEnded
    /\ start.exists /\ start.del /\ start.fin
    /\ start.uid # None /\ start.acct # None
    /\ teardown = "ok"
    /\ Answered("DeleteRole", "ok")
    /\ FinalizerGone

\* C4, for a pass whose store calls all succeed: a request marked for
\* deletion, with the finalizer, without the uid or the account id label and
\* not Ready, loses the finalizer in the pass, and the pass issues no
\* DeletePolicy, DeleteRole or DetachRolePolicy call.
C4_VacuousTeardown ==
    (/\ PassEnded /\ StoreWorked
     /\ start.exists /\ start.del /\ start.fin
     /\ (start.uid = None \/ start.acct = None)
     /\ start.state # "Ready") =>
        /\ FinalizerGone
        /\ \A i \in Calls : calls[i].op \notin DeleteOps

\* C5: once the stored state is Ready or Failed no step changes it.
C5_TerminalState ==
    [][(faa.state = "Ready" \/ faa.state = "Failed") => faa'.state = faa.state]_vars

\* The uid in the name a call of the pass used; managed policies are the
\* provider's own and carry no uid.
UsesUID(c, uid) ==
    IF c.op \in {"CreatePolicy", "CreateRole", "DeleteRole", "ListAttachedRolePolicies"}
    THEN Last(c.arg) = uid
    ELSE IF c.op \in {"AttachRolePolicy", "DetachRolePolicy"}
    THEN Last(c.arg[1]) = uid /\ (c.arg[2][1] # "aws" => Last(c.arg[2][2]) = uid)
    ELSE IF c.op = "DeletePolicy"
    THEN Last(c.arg[2]) = uid
    ELSE TRUE

\* C6: a pass generates a uid only when the request has none, a stored uid
\* label never changes, and the name of every role and every custom policy
\* in a create, attach or teardown call ends with the stored uid.
C6_UIDOnce ==
    [][/\ faa.uid # None => faa'.uid = faa.uid
       /\ (Issued("UpdateUID") => start.uid = None)'
       /\ (\A i \in Calls : UsesUID(calls[i], faa.uid))']_vars

C6_Witness ==
    /\ start.uid # None
    /\ start.uid = faa.uid
    /\ Issued("CreatePolicy")
    /\ Issued("CreateRole")
    /\ teardown = "none"

\* A provider call of a provisioning step that failed.
StepFailed(c) ==
    /\ c.op \in ProviderOps
    /\ c.fn \in {"Reconcile", "createOrUpdateIAMPolicy", "createOrUpdateIAMRole",
                 "attachIAMPolices"}
    /\ c.ans \notin {"ok", "EntityAlreadyExists"}

\* C7: after a failed provisioning step the pass issues no create and no
\* attach call, and does not set the state to Ready.
C7_FailureEndsPass ==
    \A i \in Calls : StepFailed(calls[i]) =>
        \A j \in Calls : j > i =>
            /\ calls[j].op \notin CreateOps \cup {"AttachRolePolicy"}
            /\ ~(calls[j].op = "StatusUpdate" /\ calls[j].arg = "Ready")

\* The policies the role must have attached: the managed ones and the custom one.
ManagedAndCustom ==
    {<<"aws", tmpl.managed[k]>> : k \in DOMAIN tmpl.managed}
    \cup {<<AccountID, WithUID(tmpl.polName, faa.uid)>>}

\* C8: after policy and role create-or-replace have run twice and the
\* policies were attached, the account holds the policy <custom>-<uid> and
\* the role <template>-<uid> and nothing else the runs made, and the role has
\* the managed policies and the custom policy attached; after the first run
\* the policy and the role are there as well.
C8_TwiceLeavesOne ==
    /\ (pc = "done") =>
        /\ result = "ok"
        /\ policies = {OtherPolicy, WithUID(tmpl.polName, faa.uid)}
        /\ roles = {WithUID(TemplateName, faa.uid)}
        /\ ArnsOf(WithUID(TemplateName, faa.uid)) = ManagedAndCustom
        /\ attached = {<<WithUID(TemplateName, faa.uid), a>> : a \in ManagedAndCustom}
    /\ (caller = "Twice" /\ loc.round = 2) =>
        /\ WithUID(tmpl.polName, faa.uid) \in policies \/ pc \in {"createPolicyRetry"}
        /\ WithUID(TemplateName, faa.uid) \in roles \/ pc \in {"createRoleRetry"}

C8_Witness ==
    /\ pc = "done"
    /\ result = "ok"
    /\ Cardinality({i \in Calls : calls[i].ans = "EntityAlreadyExists"}) = 4
    /\ Cardinality(attached) = MaxManaged + 1

\* C9: once cleanFederatedRoles has returned nil for a Ready request whose
\* IAM objects nobody else touched, the role <template>-<uid> and the policy
\* <custom>-<uid> are gone.
C9_TeardownLeavesNothing ==
    (teardown = "ok" /\ start.state = "Ready" /\ ~tampered) =>
        /\ WithUID(TemplateName, faa.uid) \notin roles
        /\ WithUID(tmpl.polName, faa.uid) \notin policies

\* C10: cleanFederatedRoles never returns an error because a provider call
\* answered that the object does not exist.
C10_NotFoundIsClean ==
    teardown = "err" => calls[Len(calls)].ans # "NoSuchEntity"

\* ---------------------------------------------------------------- claims: provisioning

StoreOps == {"Get", "GetRole", "AddFinalizer", "RemoveFinalizer", "UpdateUID",
             "UpdateAccountID", "StatusUpdate"}

\* A call to the resource store or to the client builder that returned an
\* error; a Get that finds nothing is an answer, not an error.
InfrastructureError(c) ==
    \/ c.op \in {"Get", "GetRole", "GetClient"} /\ c.ans = "Error"
    \/ c.op \in StoreOps \ {"Get", "GetRole"} /\ c.ans # "ok"

\* The condition for which the pass recorded state Failed: the call just
\* before its status update.
FailedBecause(op, ans) ==
    /\ Len(calls) >= 2
    /\ calls[Len(calls)].op = "StatusUpdate" /\ calls[Len(calls)].arg = "Failed"
    /\ calls[Len(calls) - 1].op = op /\ calls[Len(calls) - 1].ans = ans

\* C24: a pass that recorded state Failed (missing template, failed identity
\* discovery, policy creation, role creation or attachment) with a status
\* update the store accepted returns no error and leaves the stored state
\* Failed; a pass in which the store or the client builder returned an error
\* returns an error, and that call is its last.
C24_TerminalAbsorbed ==
    PassEnded =>
        /\ (calls[Len(calls)] = [calls[Len(calls)] EXCEPT !.op = "StatusUpdate",
                                    !.arg = "Failed", !.ans = "ok"]) =>
                (result = "ok" /\ faa.state = "Failed")
        /\ \A i \in Calls : InfrastructureError(calls[i]) =>
                (result = "err" /\ i = Len(calls))

C24_Witness ==
    /\ PassEnded
    /\ FailedBecause("AttachRolePolicy", "Other")
    /\ calls[Len(calls)].ans = "ok"
    /\ result = "ok"
    /\ faa.state = "Failed"


\* The delete that resolves a conflict on a create, and the object it names.
DeleteFor(op) == IF op = "CreatePolicy" THEN "DeletePolicy" ELSE "DeleteRole"

DeletedName(c) == IF c.op = "DeletePolicy" THEN c.arg[2] ELSE c.arg

\* The pass recorded state Failed with its call number j and issued nothing after.
EndsWithFailed(j) ==
    /\ calls[j].op = "StatusUpdate" /\ calls[j].arg = "Failed"
    /\ j = Len(calls)

\* Call i is the first create of its kind in the pass.
FirstCreate(i) ==
    /\ calls[i].op \in CreateOps
    /\ \A j \in Calls : j < i => calls[j].op # calls[i].op

\* C26: in a pass, a conflict on the first create of the policy or of the
\* role is followed by one delete of that object; a successful delete is
\* followed by one more create; a failed delete or a failed second create is
\* followed only by the record of the failure. No object is created more
\* than twice or deleted more than once.
C26_OneDeleteOneRetry ==
    caller = "Reconcile" =>
    \A i \in Calls :
        /\ (FirstCreate(i) /\ calls[i].ans = "EntityAlreadyExists") =>
            /\ i = Len(calls) =>
                    pc = (IF calls[i].op = "CreatePolicy" THEN "deletePolicy"
                          ELSE "deleteConflictingRole")
            /\ i < Len(calls) =>
                /\ calls[i + 1].op = DeleteFor(calls[i].op)
                /\ DeletedName(calls[i + 1]) = calls[i].arg
                /\ (calls[i + 1].ans = "ok" /\ i + 1 = Len(calls)) =>
                        pc = (IF calls[i].op = "CreatePolicy" THEN "createPolicyRetry"
                              ELSE "createRoleRetry")
                /\ (calls[i + 1].ans = "ok" /\ i + 1 < Len(calls)) =>
                        /\ calls[i + 2].op = calls[i].op
                        /\ calls[i + 2].arg = calls[i].arg
                        /\ (calls[i + 2].ans # "ok" /\ i + 2 < Len(calls)) =>
                                EndsWithFailed(i + 3)
                /\ (calls[i + 1].ans # "ok" /\ i + 1 < Len(calls)) =>
                        EndsWithFailed(i + 2)
        /\ calls[i].op \in CreateOps =>
                Cardinality({j \in Calls : calls[j].op = calls[i].op}) <= 2
        /\ calls[i].fn \in {"createOrUpdateIAMPolicy", "createOrUpdateIAMRole"} =>
                Cardinality({j \in Calls : /\ calls[j].fn = calls[i].fn
                                           /\ calls[j].op \in DeleteOps}) <= 1

C26_Witness ==
    /\ PassEnded
    /\ \E i \in Calls :
        /\ i + 5 \in Calls
        /\ calls[i].op = "CreatePolicy" /\ calls[i].ans = "EntityAlreadyExists"
        /\ calls[i + 1].op = "DeletePolicy" /\ calls[i + 1].ans = "ok"
        /\ calls[i + 2].op = "CreatePolicy" /\ calls[i + 2].ans = "ok"
        /\ calls[i + 3].op = "CreateRole" /\ calls[i + 3].ans = "EntityAlreadyExists"
        /\ calls[i + 4].op = "DeleteRole" /\ calls[i + 4].ans = "ok"
        /\ calls[i + 5].op = "CreateRole" /\ calls[i + 5].ans = "ok"


\* A CreateRole that failed with an error other than the conflict.
RoleCreateFailed(c) ==
    c.op = "CreateRole" /\ c.ans \notin {"ok", "EntityAlreadyExists"}

\* C27: when CreateRole fails with an error other than the conflict, the
\* pass sets state Failed and writes it, issues no DeleteRole and no
\* AttachRolePolicy after it, and neither sets nor stores a console URL.
C27_RoleFailureIsTerminal ==
    caller = "Reconcile" =>
    \A i \in Calls : RoleCreateFailed(calls[i]) =>
        /\ i = Len(calls) =>
                pc = "statusUpdate" /\ cur.state = "Failed" /\ cur.url = None
        /\ i < Len(calls) => EndsWithFailed(i + 1)
        /\ \A j \in Calls : j > i => calls[j].op \notin {"DeleteRole", "AttachRolePolicy"}
        /\ faa.url = None
        /\ (PassEnded /\ calls[Len(calls)].ans = "ok") => faa.state = "Failed"

C27_Witness ==
    /\ PassEnded
    /\ Len(calls) >= 2
    /\ RoleCreateFailed(calls[Len(calls) - 1])
    /\ FirstCreate(Len(calls) - 1)
    /\ calls[Len(calls)].ans = "ok"
    /\ faa.state = "Failed"
    /\ faa.url = None


\* The attach calls of the pass that succeeded for policy a.
AttachedOk(a) ==
    {i \in Calls : /\ calls[i].op = "AttachRolePolicy" /\ calls[i].ans = "ok"
                   /\ calls[i].arg[2] = a}

\* The pass set the state to Ready.
SetReady == \E i \in Calls : calls[i].op = "StatusUpdate" /\ calls[i].arg = "Ready"

\* The role of the request exists with the managed policies and the custom
\* policy attached, and nothing else.
RoleComplete ==
    /\ WithUID(TemplateName, faa.uid) \in roles
    /\ WithUID(tmpl.polName, faa.uid) \in policies
    /\ ArnsOf(WithUID(TemplateName, faa.uid)) = ManagedAndCustom

\* C28: a pass sets the state to Ready only if in that pass CreatePolicy
\* succeeded for <custom>-<uid>, CreateRole succeeded for <template>-<uid>
\* and one AttachRolePolicy succeeded for every managed policy and for the
\* custom policy; and when the state becomes Ready, nobody else having
\* touched the objects, the role exists with exactly these policies attached.
C28_ReadyOnlyWhenProvisioned ==
    (caller = "Reconcile" /\ SetReady) =>
        /\ \E i \in Calls : /\ calls[i].op = "CreatePolicy" /\ calls[i].ans = "ok"
                             /\ calls[i].arg = WithUID(tmpl.polName, faa.uid)
        /\ \E i \in Calls : /\ calls[i].op = "CreateRole" /\ calls[i].ans = "ok"
                             /\ calls[i].arg = WithUID(TemplateName, faa.uid)
        /\ \A a \in ManagedAndCustom : Cardinality(AttachedOk(a)) = 1
        /\ (~tampered /\ calls[Len(calls)].ans = "ok") =>
                (faa.state = "Ready" /\ RoleComplete)

\* The same without the policy's creation: a pass that sets Ready created
\* the role and attached every policy once, and leaves the role complete.
ReadyAfterRoleAndAttach ==
    (caller = "Reconcile" /\ SetReady) =>
        /\ \E i \in Calls : /\ calls[i].op = "CreateRole" /\ calls[i].ans = "ok"
                             /\ calls[i].arg = WithUID(TemplateName, faa.uid)
        /\ \A a \in ManagedAndCustom : Cardinality(AttachedOk(a)) = 1
        /\ (~tampered /\ calls[Len(calls)].ans = "ok") =>
                (faa.state = "Ready" /\ RoleComplete)


AttachFailed(c) == c.op = "AttachRolePolicy" /\ c.ans # "ok"

\* C29: after an AttachRolePolicy that failed, the pass issues no detach, no
\* DeletePolicy and no DeleteRole, only the Failed status update; nobody else
\* having touched the objects, the role, the custom policy the pass created
\* and the attachments the pass made before the failure are still there;
\* and the state is Failed once the store accepted the update.
C29_NoRollback ==
    caller = "Reconcile" =>
    \A i \in Calls : AttachFailed(calls[i]) =>
        /\ \A j \in Calls : j > i =>
                calls[j].op \notin DeleteOps \cup CreateOps \cup {"AttachRolePolicy"}
        /\ i = Len(calls) => (pc = "statusUpdate" /\ cur.state = "Failed")
        /\ i < Len(calls) => EndsWithFailed(i + 1)
        /\ ~tampered =>
            /\ calls[i].arg[1] \in roles
            /\ \A j \in Calls :
                    (calls[j].op = "AttachRolePolicy" /\ calls[j].ans = "ok") =>
                        calls[j].arg \in attached
            /\ \A j \in Calls :
                    (calls[j].op = "CreatePolicy" /\ calls[j].ans = "ok") =>
                        calls[j].arg \in policies
        /\ (PassEnded /\ calls[Len(calls)].ans = "ok") => faa.state = "Failed"

C29_Witness ==
    /\ PassEnded
    /\ ~tampered
    /\ \E i \in Calls :
        /\ i + 2 = Len(calls)
        /\ calls[i].op = "AttachRolePolicy" /\ calls[i].ans = "ok"
        /\ AttachFailed(calls[i + 1])
        /\ calls[i + 2].ans = "ok"
        /\ calls[i].arg \in attached
    /\ Answered("CreatePolicy", "ok")
    /\ faa.state = "Failed"


\* ---------------------------------------------------------------- claims: teardown

PrimaryRole == <<"OrganizationAccountAccessRole">>

AssumeCalls == {i \in Calls : calls[i].op = "AssumeRole"}

TeardownOps == {"ListAttachedRolePolicies", "ListPolicies", "DetachRolePolicy",
                "DeletePolicy", "DeleteRole"}

\* C30: the first AssumeRole of a teardown names OrganizationAccountAccessRole
\* in the request's account; BYOCAdminAccess-<uid> is assumed directly after
\* a failed first AssumeRole, always and only then; when both fail
\* cleanFederatedRoles returns an error, the pass returns it, no list, detach
\* or delete call is issued and the stored request keeps its finalizer.
C30_AssumeWithFallback ==
    caller = "Reconcile" =>
    \A i \in AssumeCalls :
        /\ calls[i].arg[1] = start.acct
        /\ Cardinality(AssumeCalls) <= 2
        /\ (\A j \in AssumeCalls : j >= i) => calls[i].arg[2] = PrimaryRole
        /\ calls[i].arg[2] # PrimaryRole =>
            /\ calls[i].arg[2] = WithUID(<<"BYOCAdminAccess">>, start.uid)
            /\ i - 1 \in AssumeCalls
            /\ calls[i - 1].arg[2] = PrimaryRole /\ calls[i - 1].ans # "ok"
        /\ (calls[i].arg[2] = PrimaryRole /\ calls[i].ans # "ok") =>
            IF i = Len(calls) THEN pc = "assumeRoleBYOC"
            ELSE i + 1 \in AssumeCalls
        /\ (calls[i].arg[2] = PrimaryRole /\ calls[i].ans = "ok") =>
            AssumeCalls = {i}
        /\ (calls[i].arg[2] # PrimaryRole /\ calls[i].ans # "ok") =>
            /\ i = Len(calls)
            /\ PassEnded /\ teardown = "err" /\ result = "err"
            /\ \A j \in Calls : calls[j].op \notin TeardownOps
            /\ faa.exists /\ faa.fin

C30_Witness ==
    /\ PassEnded
    /\ Cardinality(AssumeCalls) = 2
    /\ \A i \in AssumeCalls : calls[i].ans # "ok"
    /\ teardown = "err"
    /\ result = "err"
    /\ faa.fin


\* A call made by cleanFederatedRoles or by a function it calls.
InTeardown(c) ==
    c.fn \in {"cleanFederatedRoles", "deleteNonAttachedCustomPolicy", "checkAndDeletePolicy"}

\* The listing of the role's attached policies answered that there is no role.
RoleReportedMissing(c) ==
    c.op = "ListAttachedRolePolicies" /\ c.ans = "NoSuchEntity"

\* C31: once ListAttachedRolePolicies has answered that the role does not
\* exist, teardown lists the local policies, deletes only policies named
\* <customPolicyName>-<uid>, issues no DeleteRole and no detach, and at the
\* moment it returns nil no policy of that name is left; it returns nil
\* unless a call of the sweep failed.
C31_DefensiveSweep ==
    caller = "Reconcile" =>
    \A i \in Calls : RoleReportedMissing(calls[i]) =>
        /\ \A j \in Calls : InTeardown(calls[j]) => calls[j].op # "DeleteRole"
        /\ \A j \in Calls : (j > i /\ InTeardown(calls[j])) =>
            /\ calls[j].op \in {"ListPolicies", "DeletePolicy"}
            /\ calls[j].op = "DeletePolicy" =>
                    calls[j].arg[2] = WithUID(tmpl.polName, start.uid)
        /\ i = Len(calls) => pc = "listPolicies"
        /\ (teardown = "ok" /\ pc = "removeFinalizer") =>
                WithUID(tmpl.polName, start.uid) \notin policies
        /\ teardown = "err" => calls[Len(calls)].ans # "ok"

\* The same with the name checkAndDeletePolicy compares with.
DefensiveSweepOfExpectedName ==
    caller = "Reconcile" =>
    \A i \in Calls : RoleReportedMissing(calls[i]) =>
        /\ \A j \in Calls : InTeardown(calls[j]) => calls[j].op # "DeleteRole"
        /\ \A j \in Calls : (j > i /\ InTeardown(calls[j])) =>
            /\ calls[j].op \in {"ListPolicies", "DeletePolicy"}
            /\ calls[j].op = "DeletePolicy" =>
                    calls[j].arg[2] = getPolicyNameWithUID(tmpl.polName, start.uid)
        /\ i = Len(calls) => pc = "listPolicies"
        /\ (teardown = "ok" /\ pc = "removeFinalizer") =>
                getPolicyNameWithUID(tmpl.polName, start.uid) \notin policies
        /\ teardown = "err" => calls[Len(calls)].ans # "ok"


\* Call j belongs to the sweep of the role's attached policies.
InAttachedSweep(j) ==
    /\ InTeardown(calls[j])
    /\ \A i \in Calls : i < j => ~RoleReportedMissing(calls[i])

\* C32: in the sweep of the attached policies a DeletePolicy directly follows
\* the successful detach of the same policy and names <customPolicyName>-<uid>,
\* never a managed policy; DeleteRole is issued only after every page was
\* listed and every call of the sweep succeeded, when, nobody else having
\* touched the role, nothing is attached to it any more.
C32_DetachDeleteThenRole ==
    caller = "Reconcile" =>
        /\ \A j \in Calls :
            (InAttachedSweep(j) /\ calls[j].op = "DeletePolicy") =>
                /\ j - 1 \in Calls
                /\ calls[j - 1].op = "DetachRolePolicy" /\ calls[j - 1].ans = "ok"
                /\ calls[j - 1].arg = <<WithUID(TemplateName, start.uid), calls[j].arg>>
                /\ calls[j].arg = <<AccountID, WithUID(tmpl.polName, start.uid)>>
        /\ \A j \in Calls :
            (InTeardown(calls[j]) /\ calls[j].op = "DeleteRole") =>
                /\ \E i \in Calls : i < j /\ calls[i].op = "ListAttachedRolePolicies"
                /\ \A i \in Calls :
                        (i < j /\ calls[i].op \in TeardownOps /\ InTeardown(calls[i])) =>
                            calls[i].ans = "ok"
        /\ pc = "deleteRole" =>
                /\ loc.rest = <<>> /\ ~loc.first
                /\ ~tampered => ArnsOf(WithUID(TemplateName, start.uid)) = {}

C32_Witness ==
    /\ teardown = "ok"
    /\ pc = "removeFinalizer"
    /\ ~tampered
    /\ Cardinality({i \in Calls : calls[i].op = "ListAttachedRolePolicies"}) >= 2
    /\ \E i \in Calls : calls[i].op = "DetachRolePolicy" /\ calls[i].arg[2][1] = "aws"
    /\ Answered("DeletePolicy", "ok")
    /\ Answered("DeleteRole", "ok")


\* The call made last did not fail for a reason of the moment (a store
\* error, a provider error that is not an answer about the objects).
LastCallHealthy ==
    calls = <<>> \/ calls[Len(calls)].ans \notin {"Error", "Other"}

\* C36: if from some moment on no call fails for a reason of the moment,
\* a stored request with the deletion marker and the finalizer eventually
\* has the finalizer removed.
C36_FinalizerEventuallyRemoved ==
    (<>[]LastCallHealthy) =>
        ((faa.exists /\ faa.del /\ faa.fin) ~> FinalizerGone)


\* The same for a request whose template stays in the store.
FinalizerRemovedWhileTemplateExists ==
    ((<>[]LastCallHealthy) /\ []tmpl.exists) =>
        ((faa.exists /\ faa.del /\ faa.fin) ~> FinalizerGone)

\* C37: when a pass on a request that stopped Failed or Ready (and whose
\* policy name does not already end with the uid) has torn down and removed
\* the finalizer, nobody else having touched the objects, the account holds
\* neither the role <templateName>-<uid> nor the policy <customPolicyName>-<uid>.
C37_NothingLeftBehind ==
    (/\ PassEnded /\ teardown = "ok" /\ FinalizerGone /\ ~tampered
     /\ start.state \in {"Failed", "Ready"}
     /\ ~HasUIDSuffix(tmpl.polName, start.uid)) =>
        /\ WithUID(TemplateName, start.uid) \notin roles
        /\ WithUID(tmpl.polName, start.uid) \notin policies

\* C38: the stored console URL is set only while the stored state is Ready.
C38_UrlOnlyWhenReady ==
    faa.url # None => faa.state = "Ready"

\* ---------------------------------------------------------------- claims: template

RCalls == DOMAIN rcalls

\* A template pass has returned and no other has started.
RolePassEnded == rpc = "idle" /\ rresult # "none"

RoleIssued(op) == \E i \in RCalls : rcalls[i].op = op

RoleAnswered(op, ans) == \E i \in RCalls : rcalls[i].op = op /\ rcalls[i].ans = ans

RoleNoProviderCall == \A i \in RCalls : rcalls[i].op \notin ProviderOps

Terminal(i) == i.state = "Valid" \/ i.state = "Invalid"

\* C11: once the stored validation state is Valid or Invalid no step changes
\* it, and a pass that starts on such a template issues no provider call.
C11_WriteOnce ==
    [][/\ Terminal(frole) => frole'.state = frole.state
       /\ (Terminal(rstart) => RoleNoProviderCall)']_vars

C11_Witness ==
    /\ RolePassEnded
    /\ rresult = "ok"
    /\ rstart.state = "Valid"
    /\ RoleAnswered("Get", "ok")
    /\ frole.state = "Valid"

\* C12: a pass that validates a template with neither a custom policy nor a
\* managed policy, and whose status update the store accepts, leaves the
\* validation state Invalid and issues no provider call.
C12_EmptyIsInvalid ==
    (/\ RolePassEnded
     /\ IsEmptyTemplate(rstart)
     /\ RoleAnswered("StatusUpdate", "ok")) =>
        /\ frole.state = "Invalid"
        /\ RoleNoProviderCall

\* The pass made a trial creation and the provider answered ans.
TrialAnswered(ans) == rcalls # <<>> /\ RoleAnswered("CreatePolicy", ans)

\* The trial creation failed with an error other than MalformedPolicyDocument.
TrialFailedOtherwise ==
    \E i \in RCalls : /\ rcalls[i].op = "CreatePolicy"
                      /\ rcalls[i].ans \notin {"ok", "MalformedPolicyDocument"}

\* No provider call follows the trial creation in the pass.
TrialIsLastProviderCall ==
    \A i, j \in RCalls :
        (rcalls[i].op = "CreatePolicy" /\ j > i) => rcalls[j].op \notin ProviderOps

\* C13 as claimed: after a MalformedPolicyDocument answer the pass ends with
\* the state Invalid, no further provider call and success; after any other
\* error of the trial creation it ends with the state unchanged and an error.
C13_MalformedIsInvalid ==
    /\ (RolePassEnded /\ TrialAnswered("MalformedPolicyDocument")) =>
        /\ frole.state = "Invalid"
        /\ TrialIsLastProviderCall
        /\ rresult = "ok"
    /\ (RolePassEnded /\ TrialFailedOtherwise) =>
        /\ frole.state = rstart.state
        /\ rresult = "err"

\* C13 as amended: after a MalformedPolicyDocument answer the pass issues no
\* further provider call and writes the state Invalid; when the store accepts
\* the write the state is Invalid and the pass returns success, when it does
\* not the state is unchanged and the pass returns the store's error.  After
\* any other error of the trial creation the state is unchanged and the pass
\* returns an error.
C13_MalformedWritesInvalid ==
    /\ TrialAnswered("MalformedPolicyDocument") =>
        /\ TrialIsLastProviderCall
        /\ rpc = "statusUpdate" => instance.state = "Invalid"
        /\ RolePassEnded =>
            /\ rcalls[Len(rcalls)].op = "StatusUpdate"
            /\ rcalls[Len(rcalls)].arg = "Invalid"
            /\ IF rcalls[Len(rcalls)].ans = "ok"
               THEN frole.state = "Invalid" /\ rresult = "ok"
               ELSE frole.state = rstart.state /\ rresult = "err"
    /\ TrialFailedOtherwise =>
        /\ RolePassEnded
        /\ rcalls[Len(rcalls)].op = "CreatePolicy"
        /\ frole.state = rstart.state
        /\ rresult = "err"

C13_Witness ==
    /\ RolePassEnded
    /\ TrialAnswered("MalformedPolicyDocument")
    /\ rstart.state = Unset
    /\ frole.state = "Invalid"
    /\ rresult = "ok"

\* Every managed policy the template requests is in the provider's listing.
AllRequestedListed == \A k \in DOMAIN frole.managed : frole.managed[k] \in catalog

\* The pass has fetched every page of the listing after a successful trial
\* creation and delete.
ListingComplete ==
    /\ RoleAnswered("CreatePolicy", "ok")
    /\ RoleAnswered("DeletePolicy", "ok")
    /\ RoleIssued("ListPolicies")
    /\ ~RoleAnswered("ListPolicies", "Other")
    /\ rpc # "listPolicies"

\* C14: once the trial creation and delete have succeeded and the listing
\* was followed to its last page, the state the pass sets and writes is Valid
\* if every requested managed policy is on some page and Invalid otherwise;
\* the stored state is that state when the store accepts the write, and is
\* unchanged when it does not.
C14_ValidIffAllListed ==
    ListingComplete =>
        LET verdict == IF AllRequestedListed THEN "Valid" ELSE "Invalid" IN
        /\ rpc = "statusUpdate" => instance.state = verdict
        /\ \A i \in RCalls : rcalls[i].op = "StatusUpdate" => rcalls[i].arg = verdict
        /\ RolePassEnded =>
            /\ RoleIssued("StatusUpdate")
            /\ frole.state = (IF RoleAnswered("StatusUpdate", "ok") THEN verdict
                              ELSE rstart.state)

C14_Witness ==
    /\ RolePassEnded
    /\ ListingComplete
    /\ Len(frole.managed) = MaxManaged
    /\ Cardinality({i \in RCalls : rcalls[i].op = "ListPolicies"}) >= 2
    /\ frole.state = "Valid"


\* The pass sets, or has written, the state Valid.
SetsValid(j) == rcalls[j].op = "StatusUpdate" /\ rcalls[j].arg = "Valid"

\* C33: a trial CreatePolicy that succeeded is directly followed by the
\* DeletePolicy of the same policy; the state Valid is set and written only
\* in a pass whose trial delete succeeded; and the provider holds no policy
\* with the custom policy name of a template whose stored state is Valid.
C33_TrialPolicyRemoved ==
    /\ \A i \in RCalls : (rcalls[i].op = "CreatePolicy" /\ rcalls[i].ans = "ok") =>
            IF i = Len(rcalls) THEN rpc = "trialDelete"
            ELSE rcalls[i + 1].op = "DeletePolicy" /\ rcalls[i + 1].arg = rcalls[i].arg
    /\ ((rpc = "statusUpdate" /\ instance.state = "Valid")
         \/ \E j \in RCalls : SetsValid(j)) =>
            \E i \in RCalls :
                /\ i > 1
                /\ rcalls[i].op = "DeletePolicy" /\ rcalls[i].ans = "ok"
                /\ rcalls[i - 1].op = "CreatePolicy" /\ rcalls[i - 1].ans = "ok"
                /\ \A j \in RCalls : SetsValid(j) => j > i
    /\ frole.state = "Valid" => frole.custom \notin catalog

C33_Witness ==
    /\ RolePassEnded
    /\ rstart.state = Unset
    /\ frole.state = "Valid"
    /\ frole.custom = "Pol"
    /\ RoleAnswered("CreatePolicy", "ok")
    /\ RoleAnswered("DeletePolicy", "ok")
    /\ "Pol" \notin catalog


\* ---------------------------------------------------------------- claims: validation

VCalls == DOMAIN vcalls

\* The walk of this pass has returned and IsAccountInPoolOU has its answer.
WalkDone == vloc.inPool # "unknown"

\* ValidateAccountOU of this pass is over, by a return or by a fault.
OUValidationOver == WalkDone /\ vpc \in {"idle", "crashed", "listTags", "untag", "tag"}

ListParentsCalls == {i \in VCalls : vcalls[i].op = "ListParents"}

MoveCalls == {i \in VCalls : vcalls[i].op = "MoveAccount"}

\* Every ListParents request of the pass was answered.
ListParentsAnswered == \A i \in ListParentsCalls : vcalls[i].ans = "ok"

\* The walk ended on an id for which the provider reported no parent; vloc.awsId
\* is the id it asked about last, vloc.org the parent relation of this pass.
WalkEndedOnZeroParents ==
    /\ WalkDone
    /\ vloc.walkErr = "nil"
    /\ vloc.org[vloc.awsId] = <<>>

\* C15: when the provider reports zero parents at some level of the walk, the
\* account is reported as not a member of the pool OU, and without an error.
C15_ZeroParentsNotMember ==
    WalkEndedOnZeroParents => vloc.inPool = "no" /\ vloc.walkErr = "nil"

\* The walk found one parent at every level and the predicate matched at the
\* last of them, the N-th ancestor, N = Len(vloc.parentList).
WalkMatched ==
    /\ WalkDone
    /\ vloc.walkErr = "nil"
    /\ vloc.parentList # <<>>
    /\ isPoolOU(vloc.parentList[Len(vloc.parentList)], PoolOU)

\* C16: a walk that matches at the N-th ancestor reports the account as a
\* member, for every N >= 1, and an account is reported as a member only if an
\* ancestor on the walked chain satisfies the predicate.
C16_MemberIffMatched ==
    WalkDone =>
        /\ WalkMatched => vloc.inPool = "yes"
        /\ vloc.inPool = "yes" =>
               \E k \in DOMAIN vloc.parentList : isPoolOU(vloc.parentList[k], PoolOU)

\* C17: when the provider reports more than one parent at a hop of the walk,
\* OU validation of the pass fails with AccountMoveFailed, the pass goes no
\* further, and it issues no MoveAccount request.
C17_ManyParentsIsHardError ==
    vloc.walkErr = "MoreThanOne" =>
        /\ MoveCalls = {}
        /\ vpc \notin {"move", "listTags", "untag", "tag"}
        /\ vpc = "idle" => vresult.err = "AccountMoveFailed"

\* C18: one walk issues no more ListParents requests than the organization
\* has ids, whatever the parent relation.
C18_WalkBounded ==
    vpc = "walk" => Cardinality(ListParentsCalls) <= Cardinality(DOMAIN parents)

\* C19, for a pass whose ListParents requests are all answered: when the
\* account is found not to be in the pool OU and the move flag is off, no
\* MoveAccount request is issued and OU validation succeeds; when the flag is
\* on, exactly one MoveAccount request is issued, from the account's single
\* parent to the pool OU.
C19_MoveOnlyWhenEnabled ==
    (OUValidationOver /\ vloc.inPool = "no" /\ ListParentsAnswered) =>
        IF ~vloc.moveAccount
        THEN /\ MoveCalls = {}
             /\ vresult.how # "panic"
             /\ vresult.err # "AccountMoveFailed"
        ELSE /\ Cardinality(MoveCalls) = 1
             /\ \A i \in MoveCalls :
                    /\ vcalls[i].arg.dst = PoolOU
                    /\ vloc.org[AwsAccount] = <<vcalls[i].arg.src>>

\* ValidateAccountTags of this pass has returned, and the provider had listed
\* the account's tags for it; vloc.tag is the owner tag of that listing.
TagsValidated ==
    /\ vpc = "idle"
    /\ \E i \in VCalls : vcalls[i].op = "ListTagsForResource" /\ vcalls[i].ans = "ok"

\* The requests of the pass that change a tag, in the order they were issued.
TagMutations ==
    LET m == SelectSeq(vcalls, LAMBDA c : c.op \in {"UntagResource", "TagResource"})
    IN  [i \in DOMAIN m |-> m[i].op]

\* A request of the pass with this name was refused.
Refused(op) == \E i \in VCalls : vcalls[i].op = op /\ vcalls[i].ans # "ok"

\* C20 as stated: what ValidateAccountTags makes of each owner tag and each
\* value of tagEnabled, a tagging request that is issued bringing no error.
C20_TagTable ==
    TagsValidated =>
        IF vloc.tag = vloc.cm.shard.val
        THEN TagMutations = <<>> /\ vresult.err = "nil"
        ELSE IF vloc.tag = NoTag
        THEN IF vloc.tagEnabled
             THEN TagMutations = <<"TagResource">> /\ vresult.err = "nil"
             ELSE TagMutations = <<>> /\ vresult.err = "MissingTag"
        ELSE IF ~vloc.tagEnabled
             THEN TagMutations = <<>> /\ vresult.err = "IncorrectOwnerTag"
             ELSE IF Refused("UntagResource")
                  THEN /\ TagMutations = <<"UntagResource">>
                       /\ vresult.err = "AccountTagFailed"
                  ELSE /\ TagMutations = <<"UntagResource", "TagResource">>
                       /\ vresult.err = "nil"

\* C20: what ValidateAccountTags makes of each owner tag and each value of
\* tagEnabled: a matching tag gives no request that changes a tag and no
\* error; an absent tag gives one TagResource when tagging is enabled and
\* MissingTag without a request when it is not; a mismatched tag gives
\* UntagResource then TagResource when tagging is enabled and IncorrectOwnerTag
\* without a request when it is not; a refused UntagResource is followed by no
\* TagResource; a refused request of either kind gives AccountTagFailed, and
\* there is no error otherwise.
C20_TagTableUnlessRefused ==
    TagsValidated =>
        IF vloc.tag = vloc.cm.shard.val
        THEN TagMutations = <<>> /\ vresult.err = "nil" /\ ownerTag = vloc.tag
        ELSE IF vloc.tag = NoTag
        THEN IF vloc.tagEnabled
             THEN /\ TagMutations = <<"TagResource">>
                  /\ vresult.err = IF Refused("TagResource") THEN "AccountTagFailed"
                                   ELSE "nil"
             ELSE TagMutations = <<>> /\ vresult.err = "MissingTag" /\ ownerTag = NoTag
        ELSE IF ~vloc.tagEnabled
             THEN /\ TagMutations = <<>>
                  /\ vresult.err = "IncorrectOwnerTag"
                  /\ ownerTag = vloc.tag
             ELSE IF Refused("UntagResource")
                  THEN /\ TagMutations = <<"UntagResource">>
                       /\ vresult.err = "AccountTagFailed"
                       /\ ownerTag = vloc.tag
                  ELSE /\ TagMutations = <<"UntagResource", "TagResource">>
                       /\ vresult.err = IF Refused("TagResource")
                                        THEN "AccountTagFailed" ELSE "nil"

\* A mismatched owner tag was replaced: untag, then tag, and no error.
C20_Witness ==
    /\ TagsValidated
    /\ vloc.tag = "other"
    /\ vloc.tagEnabled
    /\ TagMutations = <<"UntagResource", "TagResource">>
    /\ vresult.err = "nil"
    /\ ownerTag = ShardName

\* The provider requests of the OU check and of the tag check.
OUOps == {"ListParents", "MoveAccount"}

TagOps == {"ListTagsForResource", "TagResource", "UntagResource"}

\* The account fails the origin check, or has no cloud account id.
Ineligible ==
    account.byoc \/ ~account.poolOwned \/ ~account.ready \/ account.awsAccountID = ""

\* The pass got as far as the checks and has returned.
ChecksOver ==
    /\ vpc = "idle"
    /\ \E i \in VCalls : vcalls[i].op = "GetClient"

\* C21: a validation pass checks origin, then the account id, then the OU,
\* then the tags, and the first check that fails ends it: an ineligible
\* account or one without an account id causes no provider request (and the
\* origin check is reported before the missing id), every request of the tag
\* check follows every request of the OU check, a refused MoveAccount or a
\* refused request of the tag check is the last request of the pass, and a
\* pass whose OU check failed has issued no request of the tag check.
C21_ChecksInOrder ==
    /\ Ineligible => \A i \in VCalls : vcalls[i].op \notin OUOps \cup TagOps
    /\ (ChecksOver /\ Ineligible) =>
           vresult = [how |-> "DoNotRequeue",
                      err |-> IF account.byoc \/ ~account.poolOwned \/ ~account.ready
                              THEN "InvalidAccount" ELSE "MissingAWSAccount"]
    /\ \A i, j \in VCalls :
           (vcalls[i].op \in OUOps /\ vcalls[j].op \in TagOps) => i < j
    /\ \A i \in VCalls :
           (vcalls[i].op \in TagOps \cup {"MoveAccount"} /\ vcalls[i].ans # "ok")
               => (i = Len(vcalls) /\ vpc = "idle")
    /\ vresult.err = "AccountMoveFailed" =>
           /\ vcalls[Len(vcalls)].op \in OUOps
           /\ vcalls[Len(vcalls)].ans # "ok"
           /\ \A i \in VCalls : vcalls[i].op \notin TagOps

\* The OU check failed in a pass that had a shard name to validate the tags
\* with: the pass ended there.
C21_Witness ==
    /\ ChecksOver
    /\ vresult.err = "AccountMoveFailed"
    /\ vloc.cm.shard = [ok |-> TRUE, val |-> ShardName]
    /\ \E i \in VCalls : vcalls[i].op = "MoveAccount"

\* C25: the move decision and the tag decision of a validation pass use the
\* values of the feature flags that pass read from the configmap, whatever
\* passes for other accounts do meanwhile.
C25_OwnFlags ==
    /\ (vloc.inPool = "no" /\ ParseBool(vloc.cm.move).ok) =>
            vloc.moveAccount = ParseBool(vloc.cm.move).val
    /\ (vpc \in {"listTags", "untag", "tag"} /\ ParseBool(vloc.cm.tag).ok) =>
            vloc.tagEnabled = ParseBool(vloc.cm.tag).val


\* C34: a pass that read a configmap in which the move flag (the tag flag)
\* is missing or does not parse issues no MoveAccount (no TagResource and no
\* UntagResource), whatever earlier passes read.
C34_UnparsedMeansDisabled ==
    /\ ~ParseBool(vloc.cm.move).ok =>
            \A i \in VCalls : vcalls[i].op # "MoveAccount"
    /\ ~ParseBool(vloc.cm.tag).ok =>
            \A i \in VCalls : vcalls[i].op \notin {"TagResource", "UntagResource"}


\* C35: with a provider client at hand, the OU check never faults: every
\* pass returns a result or is still running, whatever the provider answers.
C35_OUValidationReturns ==
    vloc.client = "ok" => (vpc # "crashed" /\ vresult.how # "panic")


\* The last call of the template reconciler did not fail.
RoleLastCallHealthy ==
    rcalls = <<>> \/ rcalls[Len(rcalls)].ans \notin {"Error", "Other"}

\* The template reconciler starts with a template that declares a custom
\* policy whose name nobody else has taken, outside fedramp mode.
TrialNameFree ==
    ~fedramp /\ frole.custom # "" /\ frole.custom \notin catalog

\* C39: when the calls fail only finitely often, a template that is not being
\* deleted eventually has validation state Valid or Invalid.
C39_TemplateEventuallyTerminal ==
    (TrialNameFree /\ <>[]RoleLastCallHealthy) =>
        ((frole.exists /\ ~frole.del) ~> (Terminal(frole) \/ frole.del))

\* ---------------------------------------------------------------- claims: config

\* C40: SetIsFedramp makes the flag false when the key is missing, the parsed
\* value when the value parses, and returns an error and keeps the flag when
\* it does not; GetDefaultRegion answers the gov region, and GetIAMArn builds
\* an ARN of partition aws-us-gov, exactly when the flag is true.
C40_FlagFollowsConfig ==
    [][cfgcalls' # cfgcalls =>
        LET c == cfgcalls'[Len(cfgcalls')] IN
        /\ c.op = "SetIsFedramp" =>
            IF "fedramp" \notin DOMAIN c.arg
            THEN fedramp' = FALSE /\ c.ans = "nil"
            ELSE IF ParseBool(c.arg.fedramp).ok
            THEN fedramp' = ParseBool(c.arg.fedramp).val /\ c.ans = "nil"
            ELSE fedramp' = fedramp /\ c.ans # "nil"
        /\ c.op = "GetDefaultRegion" =>
            /\ fedramp' = fedramp
            /\ c.ans = "us-gov-east-1" <=> fedramp
            /\ c.ans = "us-east-1" <=> ~fedramp
        /\ c.op = "GetIAMArn" =>
            /\ fedramp' = fedramp
            /\ c.ans = "arn:aws-us-gov:iam::" \o c.arg[1] \o ":" \o c.arg[2]
                           \o "/" \o c.arg[3] <=> fedramp
            /\ c.ans = "arn:aws:iam::" \o c.arg[1] \o ":" \o c.arg[2]
                           \o "/" \o c.arg[3] <=> ~fedramp]_vars

\* The flag was set, a later value did not parse, and the region and an ARN
\* were asked for after that.
C40_Witness ==
    /\ Len(cfgcalls) = 4
    /\ cfgcalls[1].op = "SetIsFedramp" /\ cfgcalls[1].ans = "nil"
    /\ cfgcalls[2].op = "SetIsFedramp" /\ cfgcalls[2].ans # "nil"
    /\ cfgcalls[3].op = "GetDefaultRegion" /\ cfgcalls[3].ans = "us-gov-east-1"
    /\ cfgcalls[4].op = "GetIAMArn"
    /\ fedramp

\* ---------------------------------------------------------------- claims: account

\* CreateAccount has returned.
CreateAccountOver == cpc = "idle" /\ cout # NoOutcome

\* C22: how CreateAccount classifies its outcome.  A refused create request
\* gives AccountLimitExceeded for the constraint-violation code,
\* InternalFailure for the service code, TooManyRequests for the
\* too-many-requests code and FailedCreateAccount for any other, and no status
\* check follows it.  An accepted one is followed by one status check: its
\* error is returned unchanged, a FAILED status gives AccountLimitExceeded for
\* the reason ACCOUNT_LIMIT_EXCEEDED and FailedCreateAccount for any other, a
\* SUCCEEDED status is returned as it is with no error.  Every error comes
\* with the empty output.
C22_Classification ==
    CreateAccountOver =>
        /\ ccalls[1].op = "CreateAccount"
        /\ cout.err # "nil" => cout.out = EmptyOutput
        /\ IF ccalls[1].ans # "ok"
           THEN /\ Len(ccalls) = 1
                /\ cout.err =
                     CASE ccalls[1].ans = "ConstraintViolationException"
                            -> "ErrAwsAccountLimitExceeded"
                       [] ccalls[1].ans = "ServiceException" -> "ErrAwsInternalFailure"
                       [] ccalls[1].ans = "TooManyRequestsException"
                            -> "ErrAwsTooManyRequests"
                       [] OTHER -> "ErrAwsFailedCreateAccount"
           ELSE /\ Len(ccalls) = 2
                /\ ccalls[2].op = "DescribeCreateAccountStatus"
                /\ IF ccalls[2].ans # "ok" THEN cout.err = ccalls[2].ans
                   ELSE IF ccalls[2].out.state = "SUCCEEDED"
                   THEN cout = [out |-> ccalls[2].out, err |-> "nil"]
                   ELSE IF ccalls[2].out.reason = "ACCOUNT_LIMIT_EXCEEDED"
                   THEN cout.err = "ErrAwsAccountLimitExceeded"
                   ELSE cout.err = "ErrAwsFailedCreateAccount"

\* A create request was refused for the account limit.
C22_Witness ==
    /\ CreateAccountOver
    /\ ccalls[1].ans = "ConstraintViolationException"
    /\ cout = [out |-> EmptyOutput, err |-> "ErrAwsAccountLimitExceeded"]

\* C23: on every snapshot each compound predicate equals its definition over
\* the base attributes.
C23_Compounds ==
    ev.evaluated =>
        LET isReady == snap.state = "Ready"
            hasState == snap.state # ""
            isCreating == snap.state = "Creating"
            hasFinalizer == AccountFinalizer \in snap.finalizers
            hasClaimLink == snap.claimLink # ""
        IN  /\ ev.IsReadyUnclaimedAndHasClaimLink
                  = (isReady /\ ~snap.claimed /\ hasClaimLink)
            /\ ev.IsBYOCPendingDeletionWithFinalizer
                  = (snap.byoc /\ snap.del /\ hasFinalizer)
            /\ ev.IsBYOCAndNotReady = (snap.byoc /\ ~isReady)
            /\ ev.ReadyForInitialization
                  = ((snap.byoc /\ ~hasState) \/ (~snap.claimed /\ isCreating))
            /\ ev.IsUnclaimedAndHasNoState = (~snap.claimed /\ ~hasState)
            /\ ev.IsUnclaimedAndIsCreating = (~snap.claimed /\ isCreating)

\* A claimed BYOC account without a state was found ready for initialization.
C23_Witness ==
    /\ ev.evaluated
    /\ snap.byoc
    /\ snap.claimed
    /\ snap.state = ""
    /\ ev.ReadyForInitialization
    /\ ~ev.IsUnclaimedAndHasNoState

====
